---- MODULE Spec2Model ----
(***************************************************************************)
(* A model of the SNN algorithm comparison pipeline: the redundancy        *)
(* adaptation of a compiled SNN graph (stage 1), the verification and      *)
(* simulation of the SNN graphs (stage 2) and the readout of the counter   *)
(* neurons and its comparison against the reference counts (stage 4).      *)
(*                                                                         *)
(* Graphs are Python objects that are mutated in place, so they live in a  *)
(* heap of objects addressed by identity; a networkx graph is a record of  *)
(* its nodes in insertion order, the attribute dict of every node, its     *)
(* list of edges and its graph-level attribute dict.  A Python dict is a   *)
(* function whose DOMAIN is the set of its keys.                           *)
(***************************************************************************)
EXTENDS Integers, Sequences, FiniteSets, TLC

VARIABLES
    heap,                   \* object identity -> graph
    graphs,                 \* the graphs dict of a run: graph name -> identity
    alipour_counter_marks,  \* the reference counts of get_alipour_nodes
    pc,                     \* the position of the operation being executed
    ret,                    \* what the last completed call returned or raised
    log                     \* the calls that stage 2 completed so far, in order

vars == <<heap, graphs, alipour_counter_marks, pc, ret, log>>

(***************************************************************************)
(* Bounds of the model.                                                    *)
(***************************************************************************)
NumNodes == 2       \* nodes of the input graph, 0 .. NumNodes-1
MVal == 1           \* the m_val of the run

NodeIndices == 0 .. (NumNodes - 1)
Counts == {0, 7}    \* the final currents u and reference counts that are tried

(***************************************************************************)
(* Calls either return a value or raise.                                   *)
(***************************************************************************)
Raise == [exc |-> TRUE]
Return(v) == [exc |-> FALSE, val |-> v]
NoCall == [op |-> "none"]

EmptyDict == [k \in {} |-> 0]
HasKey(d, k) == k \in DOMAIN d

(***************************************************************************)
(* Neuron names.                                                           *)
(***************************************************************************)
CounterName(node_index, m_val) ==
    "counter_" \o ToString(node_index) \o "_" \o ToString(m_val)
RedName(name) == "red_" \o name
CounterNames == {CounterName(i, MVal) : i \in NodeIndices}

RECURSIVE SetToSeq(_)
SetToSeq(S) ==
    IF S = {} THEN << >>
    ELSE LET x == CHOOSE y \in S : TRUE IN <<x>> \o SetToSeq(S \ {x})

Range(s) == {s[k] : k \in 1 .. Len(s)}

(***************************************************************************)
(* The neuron object stored under the nx_LIF key of a node.                *)
(***************************************************************************)
LIF(bias, du, dv, vth, u, v, spikes) ==
    [bias |-> bias, du |-> du, dv |-> dv, vth |-> vth,
     u |-> u, v |-> v, spikes |-> spikes]

(***************************************************************************)
(* The input graph: the path 0 - 1 - ... - NumNodes-1.                     *)
(***************************************************************************)
InputGraph ==
    [nodes |-> [k \in 1 .. NumNodes |-> k - 1],
     attrs |-> [n \in NodeIndices |-> EmptyDict],
     edges |-> [k \in 1 .. (NumNodes - 1) |->
                    [src |-> k - 1, dst |-> k, attrs |-> EmptyDict]],
     graph |-> EmptyDict]

(***************************************************************************)
(* get_mdsa_results.py: graph_has_dead_neurons.  The first loop looks for  *)
(* the rad_death key in any node, the second raises at the first node that *)
(* lacks it.                                                               *)
(***************************************************************************)
RECURSIVE rad_death_found(_, _)
rad_death_found(snn_graph, k) ==
    IF k > Len(snn_graph.nodes) THEN FALSE
    ELSE IF HasKey(snn_graph.attrs[snn_graph.nodes[k]], "rad_death") THEN TRUE
    ELSE rad_death_found(snn_graph, k + 1)

RECURSIVE rad_death_in_all(_, _)
rad_death_in_all(snn_graph, k) ==
    IF k > Len(snn_graph.nodes) THEN Return(TRUE)
    ELSE IF ~HasKey(snn_graph.attrs[snn_graph.nodes[k]], "rad_death") THEN Raise
    ELSE rad_death_in_all(snn_graph, k + 1)

\* A variant that returns as soon as the key is found in some node.
graph_has_dead_neurons_unverified(snn_graph) ==
    IF rad_death_found(snn_graph, 1) THEN Return(TRUE) ELSE Return(FALSE)

graph_has_dead_neurons(snn_graph) ==
    IF rad_death_found(snn_graph, 1)
    THEN rad_death_in_all(snn_graph, 1)
    ELSE Return(FALSE)

(***************************************************************************)
(* get_mdsa_results.py: counter_neuron_died.  Reading a node or a key that *)
(* does not exist raises (KeyError).                                       *)
(***************************************************************************)
\* A variant that answers for the graph instead of for the neuron.
counter_neuron_died_of_graph(snn_graph, counter_neuron_name) ==
    graph_has_dead_neurons(snn_graph)

counter_neuron_died(snn_graph, counter_neuron_name) ==
    LET has_dead == graph_has_dead_neurons(snn_graph) IN
    IF has_dead.exc THEN Raise
    ELSE IF has_dead.val
    THEN IF counter_neuron_name \in DOMAIN snn_graph.attrs
            /\ HasKey(snn_graph.attrs[counter_neuron_name], "rad_death")
         THEN Return(snn_graph.attrs[counter_neuron_name]["rad_death"])
         ELSE Raise
    ELSE Return(FALSE)

(***************************************************************************)
(* Reading G.nodes[name]["nx_LIF"].u.get().                                *)
(***************************************************************************)
read_u(G, name) ==
    IF name \in DOMAIN G.attrs /\ HasKey(G.attrs[name], "nx_LIF")
    THEN Return(G.attrs[name]["nx_LIF"].u)
    ELSE Raise

(***************************************************************************)
(* get_mdsa_results.py: get_nx_LIF_count_without_redundancy, the loop over *)
(* range(0, len(input_graph)) from node_index on, node_counts so far.      *)
(***************************************************************************)
RECURSIVE count_without_redundancy_from(_, _, _, _, _)
count_without_redundancy_from(input_graph, nx_SNN_G, m_val, node_index, node_counts) ==
    IF node_index >= Len(input_graph.nodes) THEN Return(node_counts)
    ELSE LET name == CounterName(node_index, m_val)
             u == read_u(nx_SNN_G, name)
         IN IF u.exc THEN Raise
            ELSE count_without_redundancy_from(
                     input_graph, nx_SNN_G, m_val, node_index + 1,
                     (name :> u.val) @@ node_counts)

\* A variant that reads the twin of a counter that is dead, when it has one.
get_nx_LIF_count_of_live_neurons(input_graph, nx_SNN_G, m_val) ==
    Return([name \in {CounterName(i, m_val) : i \in 0 .. (Len(input_graph.nodes) - 1)} |->
               IF HasKey(nx_SNN_G.attrs[name], "rad_death")
                   /\ nx_SNN_G.attrs[name]["rad_death"]
                   /\ RedName(name) \in DOMAIN nx_SNN_G.attrs
               THEN nx_SNN_G.attrs[RedName(name)]["nx_LIF"].u
               ELSE nx_SNN_G.attrs[name]["nx_LIF"].u])

get_nx_LIF_count_without_redundancy(input_graph, nx_SNN_G, m_val) ==
    count_without_redundancy_from(input_graph, nx_SNN_G, m_val, 0, EmptyDict)

(***************************************************************************)
(* get_mdsa_results.py: get_nx_LIF_count_with_redundancy.                  *)
(***************************************************************************)
RECURSIVE count_with_redundancy_from(_, _, _, _, _)
count_with_redundancy_from(input_graph, adapted_nx_snn_graph, m_val, node_index, node_counts) ==
    IF node_index >= Len(input_graph.nodes) THEN Return(node_counts)
    ELSE LET name == CounterName(node_index, m_val)
             died == counter_neuron_died(adapted_nx_snn_graph, name)
         IN IF died.exc THEN Raise
            ELSE LET read == IF died.val THEN RedName(name) ELSE name
                     u == read_u(adapted_nx_snn_graph, read)
                 IN IF u.exc THEN Raise
                    ELSE count_with_redundancy_from(
                             input_graph, adapted_nx_snn_graph, m_val,
                             node_index + 1, (name :> u.val) @@ node_counts)

get_nx_LIF_count_with_redundancy(input_graph, adapted_nx_snn_graph, m_val) ==
    count_with_redundancy_from(input_graph, adapted_nx_snn_graph, m_val, 0, EmptyDict)

(***************************************************************************)
(* get_mdsa_results.py: get_snn_results.  The two dicts are compared with  *)
(* ==, that is by their keys and values, before the passed key is added.   *)
(***************************************************************************)
\* A variant that compares the keys of the two dicts only.
get_snn_results_keys_only(alipour_marks, input_graph, m_val, redundant, snn_graph) ==
    LET snn_counter_marks ==
            IF ~redundant
            THEN get_nx_LIF_count_without_redundancy(input_graph, snn_graph, m_val)
            ELSE get_nx_LIF_count_with_redundancy(input_graph, snn_graph, m_val)
    IN IF snn_counter_marks.exc THEN Raise
       ELSE IF DOMAIN alipour_marks = DOMAIN snn_counter_marks.val
       THEN Return(("passed" :> TRUE) @@ snn_counter_marks.val)
       ELSE Return(("passed" :> FALSE) @@ snn_counter_marks.val)

get_snn_results(alipour_marks, input_graph, m_val, redundant, snn_graph) ==
    LET snn_counter_marks ==
            IF ~redundant
            THEN get_nx_LIF_count_without_redundancy(input_graph, snn_graph, m_val)
            ELSE get_nx_LIF_count_with_redundancy(input_graph, snn_graph, m_val)
    IN IF snn_counter_marks.exc THEN Raise
       ELSE IF alipour_marks = snn_counter_marks.val
       THEN Return(("passed" :> TRUE) @@ snn_counter_marks.val)
       ELSE Return(("passed" :> FALSE) @@ snn_counter_marks.val)

(***************************************************************************)
(* The graphs handed to the readout: the counter neurons of a simulated    *)
(* SNN graph (with their red_ twins when the graph was adapted), each with *)
(* a final current u, and rad_death on any subset of the nodes.            *)
(***************************************************************************)
ReadoutNames(adapted) ==
    CounterNames \cup (IF adapted THEN {RedName(c) : c \in CounterNames} ELSE {})

\* rad_death absent from every node, present on every node, or present on
\* some nodes only (then with one value).
RadMarkings(S) ==
    {EmptyDict}
        \cup [S -> BOOLEAN]
        \cup UNION {{[n \in M |-> b] : b \in BOOLEAN} : M \in (SUBSET S) \ {{}, S}}

ReadoutGraph(names, us, rad) ==
    [nodes |-> SetToSeq(names),
     attrs |-> [n \in names |->
                   ("nx_LIF" :> LIF(0, 0, 0, 1, us[n], 0, FALSE))
                   @@ (IF n \in DOMAIN rad THEN "rad_death" :> rad[n] ELSE EmptyDict)],
     edges |-> << >>,
     graph |-> EmptyDict]

\* The orders in which a graph's nodes may have been inserted: the rotations
\* of an order and their reversals.
Rotate(s, r) == [k \in 1 .. Len(s) |-> s[((k - 1 + r) % Len(s)) + 1]]
Reverse(s) == [k \in 1 .. Len(s) |-> s[Len(s) + 1 - k]]
NodeOrders(s) ==
    {Rotate(s, r) : r \in 0 .. (Len(s) - 1)}
        \cup {Reverse(Rotate(s, r)) : r \in 0 .. (Len(s) - 1)}

SnnGraph == heap[graphs["snn_graph"]]

InitReadout ==
    /\ \E adapted \in BOOLEAN :
       \E us \in [ReadoutNames(adapted) -> Counts],
          rad \in RadMarkings(ReadoutNames(adapted)) :
           heap = (1 :> InputGraph)
                      @@ (2 :> ReadoutGraph(ReadoutNames(adapted), us, rad))
    /\ graphs = ("input_graph" :> 1) @@ ("snn_graph" :> 2)
    /\ alipour_counter_marks \in [CounterNames -> Counts]
    /\ pc = "idle"
    /\ ret = NoCall
    /\ log = << >>

GetSnnResults ==
    /\ pc = "idle"
    /\ \E redundant \in BOOLEAN :
           ret' = [op |-> "get_snn_results", arg |-> redundant,
                   out |-> get_snn_results(alipour_counter_marks,
                                           heap[graphs["input_graph"]], MVal,
                                           redundant, SnnGraph)]
    /\ pc' = "done"
    /\ UNCHANGED <<heap, graphs, alipour_counter_marks, log>>

GetNxLIFCountWithRedundancy ==
    /\ pc = "idle"
    /\ ret' = [op |-> "get_nx_LIF_count_with_redundancy", arg |-> TRUE,
               out |-> get_nx_LIF_count_with_redundancy(
                           heap[graphs["input_graph"]], SnnGraph, MVal)]
    /\ pc' = "done"
    /\ UNCHANGED <<heap, graphs, alipour_counter_marks, log>>

GetNxLIFCountWithoutRedundancy ==
    /\ pc = "idle"
    /\ ret' = [op |-> "get_nx_LIF_count_without_redundancy", arg |-> FALSE,
               out |-> get_nx_LIF_count_without_redundancy(
                           heap[graphs["input_graph"]], SnnGraph, MVal)]
    /\ pc' = "done"
    /\ UNCHANGED <<heap, graphs, alipour_counter_marks, log>>

GraphHasDeadNeurons ==
    /\ pc = "idle"
    /\ \E order \in NodeOrders(SnnGraph.nodes) :
           ret' = [op |-> "graph_has_dead_neurons", arg |-> TRUE,
                   out |-> graph_has_dead_neurons([SnnGraph EXCEPT !.nodes = order])]
    /\ pc' = "done"
    /\ UNCHANGED <<heap, graphs, alipour_counter_marks, log>>

NextReadout ==
    \/ GetSnnResults
    \/ GetNxLIFCountWithRedundancy
    \/ GetNxLIFCountWithoutRedundancy
    \/ GraphHasDeadNeurons

SpecReadout == InitReadout /\ [][NextReadout]_vars

(***************************************************************************)
(* What the readout claims speak about.                                    *)
(***************************************************************************)
Marked(G, n) == HasKey(G.attrs[n], "rad_death")
AllMarked(G) == \A n \in DOMAIN G.attrs : Marked(G, n)
NoneMarked(G) == \A n \in DOMAIN G.attrs : ~Marked(G, n)
Dead(G, n) == Marked(G, n) /\ G.attrs[n]["rad_death"]
HasTwin(G, n) == RedName(n) \in DOMAIN G.attrs
U(G, n) == G.attrs[n]["nx_LIF"].u
Called(op) == pc = "done" /\ ret.op = op

\* C1: the readout with redundancy reports, under the key counter_i_m of every
\* node index i, the current u of red_counter_i_m when counter_i_m has
\* rad_death = True and the current u of counter_i_m otherwise; it returns
\* whenever rad_death is on all nodes or on none and every dead counter has its
\* twin, and raises otherwise.
ReadoutFallback ==
    Called("get_nx_LIF_count_with_redundancy") =>
        LET G == SnnGraph IN
        /\ ret.out.exc <=>
               \/ ~(AllMarked(G) \/ NoneMarked(G))
               \/ \E c \in CounterNames : Dead(G, c) /\ ~HasTwin(G, c)
        /\ ~ret.out.exc =>
               /\ DOMAIN ret.out.val = CounterNames
               /\ \A i \in NodeIndices :
                      LET c == CounterName(i, MVal) IN
                      ret.out.val[c] =
                          IF Dead(G, c) THEN U(G, RedName(c)) ELSE U(G, c)

\* A dead counter whose twin holds another current than it does is read from
\* the twin, next to a live counter that is read itself.
ReadoutFallbackWitness ==
    /\ Called("get_nx_LIF_count_with_redundancy")
    /\ ~ret.out.exc
    /\ \E c, d \in CounterNames :
           /\ Dead(SnnGraph, c)
           /\ U(SnnGraph, RedName(c)) = 7
           /\ U(SnnGraph, c) = 0
           /\ ret.out.val[c] = 7
           /\ ~Dead(SnnGraph, d)
           /\ U(SnnGraph, RedName(d)) # U(SnnGraph, d)
           /\ ret.out.val[d] = U(SnnGraph, d)

\* C2: get_snn_results sets passed to True exactly when the count read out for
\* every node equals the reference count of that node, and to False otherwise.
PassedIffCountsAgree ==
    (Called("get_snn_results") /\ ~ret.out.exc) =>
        LET G == SnnGraph
            read == IF ret.arg
                    THEN get_nx_LIF_count_with_redundancy(
                             heap[graphs["input_graph"]], G, MVal)
                    ELSE get_nx_LIF_count_without_redundancy(
                             heap[graphs["input_graph"]], G, MVal)
        IN /\ DOMAIN ret.out.val = CounterNames \cup {"passed"}
           /\ \A c \in CounterNames : ret.out.val[c] = read.val[c]
           /\ ret.out.val["passed"] =
                  (\A c \in CounterNames :
                       ret.out.val[c] = alipour_counter_marks[c])

\* A comparison that passes although the counts are neither all equal to each
\* other nor all zero.
PassedIffCountsAgreeWitness ==
    /\ Called("get_snn_results")
    /\ ~ret.out.exc
    /\ ret.out.val["passed"]
    /\ \E c, d \in CounterNames : ret.out.val[c] # ret.out.val[d]

\* C3: graph_has_dead_neurons returns False when no node has the rad_death key,
\* True when every node has it, and raises when some node has it and some node
\* lacks it, in whatever order the nodes are iterated.
FaultConsistency ==
    Called("graph_has_dead_neurons") =>
        LET G == SnnGraph IN
        /\ NoneMarked(G) => (~ret.out.exc /\ ret.out.val = FALSE)
        /\ AllMarked(G) => (~ret.out.exc /\ ret.out.val = TRUE)
        /\ (~NoneMarked(G) /\ ~AllMarked(G)) => ret.out.exc

\* A graph with the key on some nodes only, for which the call raised.
FaultConsistencyWitness ==
    /\ Called("graph_has_dead_neurons")
    /\ ~NoneMarked(SnnGraph)
    /\ ~AllMarked(SnnGraph)
    /\ ret.out.exc

(***************************************************************************)
(* Stage 1: the compiled SNN graphs handed to the adaptation.  Every input *)
(* node i has a neuron spike_once_i and a counter neuron counter_i_m; the  *)
(* synapses run from spike_once_j to counter_i for j <= i, and counter_0   *)
(* may have a recurrent synapse.  Nodes carry bias, du, dv and vth, edges  *)
(* carry a weight.                                                         *)
(***************************************************************************)
SpikeOnceName(node_index) == "spike_once_" \o ToString(node_index)
SpikeOnceNames == {SpikeOnceName(i) : i \in NodeIndices}

NodeSpec(bias, du, dv, vth) ==
    ("bias" :> bias) @@ ("du" :> du) @@ ("dv" :> dv) @@ ("vth" :> vth)

CounterKinds == {NodeSpec(0, 0, 1, 1), NodeSpec(1, 0, 1, 2), NodeSpec(0, 1, 0, 2)}
SpikeOnceKind == NodeSpec(1, 0, 0, 1)
Weights == {-1, 2}

\* A Python number with its type: edge weights are type-checked.
Float(x) == [type |-> "float", val |-> x]
Int_(x) == [type |-> "int", val |-> x]

Synapse(src, dst, weight) ==
    [src |-> src, dst |-> dst, attrs |-> ("weight" :> weight)]

SynapseCandidates ==
    {<<SpikeOnceName(q[1]), CounterName(q[2], MVal)>> :
         q \in {r \in NodeIndices \X NodeIndices : r[1] <= r[2]}}
        \cup {<<CounterName(0, MVal), CounterName(0, MVal)>>}

\* weights: a weight for each synapse that is present.
CompiledGraph(kinds, weights) ==
    [nodes |-> SetToSeq(SpikeOnceNames) \o SetToSeq(CounterNames),
     attrs |-> [n \in SpikeOnceNames \cup CounterNames |->
                   IF n \in CounterNames THEN kinds[n] ELSE SpikeOnceKind],
     edges |-> [k \in 1 .. Cardinality(DOMAIN weights) |->
                   LET e == SetToSeq(DOMAIN weights)[k]
                   IN Synapse(e[1], e[2], Float(weights[e]))],
     graph |-> EmptyDict]

(***************************************************************************)
(* Redundancy levels are fractions; a level is compared with an integer as *)
(* Python compares a float with an int.                                    *)
(***************************************************************************)
Level(num, den) == [num |-> num, den |-> den]
RedLevels == {Level(0, 1), Level(1, 2), Level(1, 1), Level(3, 2), Level(2, 1)}
EqInt(level, k) == level.num = k * level.den
Greater(level, k) == level.num > k * level.den

(***************************************************************************)
(* copy.deepcopy: a new object, equal to the copied one and sharing        *)
(* nothing with it.                                                        *)
(***************************************************************************)
FreshId(h) == 1 + Cardinality(DOMAIN h)

deepcopy(h, id) == [heap |-> (FreshId(h) :> h[id]) @@ h, id |-> FreshId(h)]

(***************************************************************************)
(* implement_adaptation_mechanism, from the design: every counter neuron X *)
(* gets a twin red_X with the attributes of X and with a synapse from      *)
(* every source of a synapse into X, of the same weight.  The graph is     *)
(* changed in place.                                                       *)
(***************************************************************************)
IsCounter(name) == name \in CounterNames

\* For every synapse into a counter, in order, the same synapse into its twin.
RECURSIVE twin_synapses(_)
twin_synapses(edges) ==
    IF edges = << >> THEN << >>
    ELSE (IF IsCounter(Head(edges).dst)
          THEN <<[Head(edges) EXCEPT !.dst = RedName(Head(edges).dst)]>>
          ELSE << >>)
             \o twin_synapses(Tail(edges))

with_redundant_neurons(G) ==
    LET counters == SelectSeq(G.nodes, IsCounter)
        twins == [k \in 1 .. Len(counters) |-> RedName(counters[k])]
    IN [G EXCEPT
           !.nodes = G.nodes \o twins,
           !.attrs = [n \in DOMAIN G.attrs \cup Range(twins) |->
                         IF n \in DOMAIN G.attrs THEN G.attrs[n]
                         ELSE G.attrs[CHOOSE c \in Range(counters) : RedName(c) = n]],
           !.edges = G.edges \o twin_synapses(G.edges)]

implement_adaptation_mechanism(h, id) ==
    [h EXCEPT ![id] = with_redundant_neurons(h[id])]

(***************************************************************************)
(* stage_1_get_input_graphs.py: get_redundant_graph.  Returns the heap     *)
(* after the call and what the call returned or raised.                    *)
(***************************************************************************)
\* A variant that adapts the caller's graph itself.
get_redundant_graph_in_place(h, snn_algo_graph, red_lev) ==
    IF EqInt(red_lev, 0) THEN [heap |-> h, out |-> Raise]
    ELSE IF EqInt(red_lev, 1)
    THEN [heap |-> implement_adaptation_mechanism(h, snn_algo_graph),
          out |-> Return(snn_algo_graph)]
    ELSE [heap |-> h, out |-> Raise]

\* A variant that returns the copy without adapting it.
get_redundant_graph_copy_only(h, snn_algo_graph, red_lev) ==
    IF EqInt(red_lev, 0) THEN [heap |-> h, out |-> Raise]
    ELSE IF EqInt(red_lev, 1)
    THEN LET adaptation_graph == deepcopy(h, snn_algo_graph)
         IN [heap |-> adaptation_graph.heap, out |-> Return(adaptation_graph.id)]
    ELSE [heap |-> h, out |-> Raise]

\* A variant that accepts the levels from 1 on.
get_redundant_graph_from_one(h, snn_algo_graph, red_lev) ==
    IF EqInt(red_lev, 0) THEN [heap |-> h, out |-> Raise]
    ELSE IF EqInt(red_lev, 1) \/ Greater(red_lev, 1)
    THEN LET adaptation_graph == deepcopy(h, snn_algo_graph)
         IN [heap |-> implement_adaptation_mechanism(
                          adaptation_graph.heap, adaptation_graph.id),
             out |-> Return(adaptation_graph.id)]
    ELSE [heap |-> h, out |-> Raise]

get_redundant_graph(h, snn_algo_graph, red_lev) ==
    IF EqInt(red_lev, 0) THEN [heap |-> h, out |-> Raise]
    ELSE IF EqInt(red_lev, 1)
    THEN LET adaptation_graph == deepcopy(h, snn_algo_graph)
         IN [heap |-> implement_adaptation_mechanism(
                          adaptation_graph.heap, adaptation_graph.id),
             out |-> Return(adaptation_graph.id)]
    ELSE [heap |-> h, out |-> Raise]

InitRedundancy ==
    /\ \E kinds \in [CounterNames -> CounterKinds] :
       \E present \in SUBSET SynapseCandidates :
       \E weights \in [present -> Weights] :
           heap = (1 :> CompiledGraph(kinds, weights))
    /\ graphs = ("snn_algo_graph" :> 1)
    /\ alipour_counter_marks = EmptyDict
    /\ pc = "idle"
    /\ ret = NoCall
    /\ log = << >>

GetRedundantGraph ==
    /\ pc = "idle"
    /\ \E red_lev \in RedLevels :
           LET call == get_redundant_graph(heap, graphs["snn_algo_graph"], red_lev)
           IN /\ heap' = call.heap
              /\ ret' = [op |-> "get_redundant_graph", arg |-> red_lev,
                         out |-> call.out]
    /\ pc' = "done"
    /\ UNCHANGED <<graphs, alipour_counter_marks, log>>

NextRedundancy == GetRedundantGraph

SpecRedundancy == InitRedundancy /\ [][NextRedundancy]_vars

(***************************************************************************)
(* What the adaptation claims speak about.                                 *)
(***************************************************************************)
CompiledId == graphs["snn_algo_graph"]
FanIn(G, n) ==
    {<<G.edges[k].src, G.edges[k].attrs>> :
         k \in {j \in DOMAIN G.edges : G.edges[j].dst = n}}
NrOfSynapsesInto(G, n) == Cardinality({j \in DOMAIN G.edges : G.edges[j].dst = n})
ElectricalKeys == {"bias", "du", "dv", "vth"}

\* C4: get_redundant_graph raises for redundancy level 0 and for every level
\* above 1, and for level 1 it returns a graph.
RedundancyLevelBoundaries ==
    Called("get_redundant_graph") =>
        /\ EqInt(ret.arg, 0) => ret.out.exc
        /\ Greater(ret.arg, 1) => ret.out.exc
        /\ EqInt(ret.arg, 1) => (~ret.out.exc /\ ret.out.val \in DOMAIN heap)

\* Level 1.5 was asked for and the call raised, leaving one graph on the heap.
RedundancyLevelBoundariesWitness ==
    /\ Called("get_redundant_graph")
    /\ ret.arg = Level(3, 2)
    /\ ret.out.exc
    /\ DOMAIN heap = {CompiledId}

\* C5 (as claimed): get_redundant_graph returns a graph for every redundancy
\* level r with 0 < r <= 1.
AcceptsEveryLevelUpToOne ==
    Called("get_redundant_graph") =>
        ((Greater(ret.arg, 0) /\ ~Greater(ret.arg, 1)) => ~ret.out.exc)

\* C6: a call of get_redundant_graph, returning or raising, leaves the caller's
\* compiled graph as it was, and the graph it returns is a new object.
CallerGraphUntouched ==
    [][(pc = "idle" /\ pc' = "done" /\ ret'.op = "get_redundant_graph") =>
           /\ heap'[CompiledId] = heap[CompiledId]
           /\ \A id \in DOMAIN heap : heap'[id] = heap[id]
           /\ ~ret'.out.exc =>
                  /\ ret'.out.val # CompiledId
                  /\ ret'.out.val \notin DOMAIN heap
                  /\ ret'.out.val \in DOMAIN heap']_vars

\* The call returned a graph that differs from the compiled graph it copied.
CallerGraphUntouchedWitness ==
    /\ Called("get_redundant_graph")
    /\ ~ret.out.exc
    /\ ret.out.val # CompiledId
    /\ heap[ret.out.val] # heap[CompiledId]
    /\ Len(heap[ret.out.val].nodes) > Len(heap[CompiledId].nodes)

SimDuration == 3    \* the number of timesteps get_sim_duration answers
MaxDead == 1        \* the number of neurons the radiation may kill

AllowedWeightType == "float"
RequiredNodeKeys == {"bias", "du", "dv", "vth"}

assert_synaptic_edgeweight_type_is_correct(G, k) ==
    IF HasKey(G.edges[k].attrs, "weight")
        /\ G.edges[k].attrs["weight"].type = AllowedWeightType
    THEN Return(TRUE) ELSE Raise

RECURSIVE edge_weights_checked_from(_, _)
edge_weights_checked_from(G, k) ==
    IF k > Len(G.edges) THEN Return(TRUE)
    ELSE IF assert_synaptic_edgeweight_type_is_correct(G, k).exc THEN Raise
    ELSE edge_weights_checked_from(G, k + 1)

assert_no_duplicate_edges_exist(G) ==
    IF \E j, k \in DOMAIN G.edges :
           j # k /\ G.edges[j].src = G.edges[k].src /\ G.edges[j].dst = G.edges[k].dst
    THEN Raise ELSE Return(TRUE)

\* The design gives old_graph_to_new_graph_properties no effect on the
\* attributes that are modelled.
old_graph_to_new_graph_properties(G) == G

verify_networkx_snn_spec(G) ==
    IF \A n \in DOMAIN G.attrs : RequiredNodeKeys \subseteq DOMAIN G.attrs[n]
    THEN Return(TRUE) ELSE Raise

\* Creates the neuron object of every node, at rest; reading a missing
\* attribute raises.
add_nx_neurons_to_networkx_graph(G) ==
    IF \E n \in DOMAIN G.attrs : ~(RequiredNodeKeys \subseteq DOMAIN G.attrs[n])
    THEN [graph |-> G, out |-> Raise]
    ELSE [graph |->
              [G EXCEPT !.attrs =
                  [n \in DOMAIN G.attrs |->
                      ("nx_LIF" :> LIF(G.attrs[n]["bias"], G.attrs[n]["du"],
                                       G.attrs[n]["dv"], G.attrs[n]["vth"],
                                       0, 0, FALSE))
                      @@ G.attrs[n]]],
          out |-> Return(TRUE)]

get_sim_duration(snn_graph) == SimDuration

add_stage_completion_to_graph(G, stage_index) ==
    [G EXCEPT !.graph =
        ("completed_stages" :>
             (IF HasKey(G.graph, "completed_stages")
              THEN Append(G.graph["completed_stages"], stage_index)
              ELSE <<stage_index>>))
        @@ G.graph]

(***************************************************************************)
(* The simulation engine, from the design: one timestep of one neuron, and *)
(* of all neurons of a graph at once.                                      *)
(***************************************************************************)
rad_dead(G, n) == HasKey(G.attrs[n], "rad_death") /\ G.attrs[n]["rad_death"]

\* The current that arrives at neuron n: the weights of its incoming
\* synapses, from edge k on, whose source spiked in the previous timestep.
RECURSIVE a_in_from(_, _, _)
a_in_from(G, n, k) ==
    IF k > Len(G.edges) THEN 0
    ELSE (IF G.edges[k].dst = n
             /\ G.attrs[G.edges[k].src]["nx_LIF"].spikes
             /\ ~rad_dead(G, G.edges[k].src)
          THEN G.edges[k].attrs["weight"].val ELSE 0)
         + a_in_from(G, n, k + 1)

\* A variant with a strict threshold.
lif_step_strict(G, n) ==
    LET lif == G.attrs[n]["nx_LIF"]
        u == lif.u * (1 - lif.du) + a_in_from(G, n, 1) + lif.bias
        v == lif.v * (1 - lif.dv) + u
    IN IF rad_dead(G, n) THEN lif
       ELSE IF v > lif.vth
       THEN [lif EXCEPT !.u = u, !.v = 0, !.spikes = TRUE]
       ELSE [lif EXCEPT !.u = u, !.v = v, !.spikes = FALSE]

\* A variant in which a dead neuron keeps integrating.
lif_step_of_dead(G, n) ==
    LET lif == G.attrs[n]["nx_LIF"]
        u == lif.u * (1 - lif.du) + a_in_from(G, n, 1) + lif.bias
        v == lif.v * (1 - lif.dv) + u
    IN IF v >= lif.vth
       THEN [lif EXCEPT !.u = u, !.v = 0, !.spikes = TRUE]
       ELSE [lif EXCEPT !.u = u, !.v = v, !.spikes = FALSE]

lif_step(G, n) ==
    LET lif == G.attrs[n]["nx_LIF"]
        u == lif.u * (1 - lif.du) + a_in_from(G, n, 1) + lif.bias
        v == lif.v * (1 - lif.dv) + u
    IN IF rad_dead(G, n) THEN lif
       ELSE IF v >= lif.vth
       THEN [lif EXCEPT !.u = u, !.v = 0, !.spikes = TRUE]
       ELSE [lif EXCEPT !.u = u, !.v = v, !.spikes = FALSE]

\* A variant that visits the neurons one after the other and lets each read
\* the graph as the neurons visited before it left it.
RECURSIVE visited_in_place_from(_, _)
visited_in_place_from(G, k) ==
    IF k > Len(G.nodes) THEN G
    ELSE visited_in_place_from(
             [G EXCEPT !.attrs[G.nodes[k]]["nx_LIF"] = lif_step(G, G.nodes[k])],
             k + 1)

run_simulation_for_1_timestep_in_place(G) == visited_in_place_from(G, 1)

run_simulation_for_1_timestep(G) ==
    [G EXCEPT !.attrs =
        [n \in DOMAIN G.attrs |-> [G.attrs[n] EXCEPT !["nx_LIF"] = lif_step(G, n)]]]

(***************************************************************************)
(* stage2_sim.py: the calls that convert_graph_snn_to_nx_snn and sim_graphs *)
(* make for one graph, in the order of the code.                           *)
(***************************************************************************)
\* A variant that does not verify the neuron properties.
convert_graph_snn_to_nx_snn_unverified ==
    <<"assert_synaptic_edgeweight_type_is_correct",
      "assert_no_duplicate_edges_exist",
      "old_graph_to_new_graph_properties",
      "add_nx_neurons_to_networkx_graph">>

\* A variant that does not look for duplicate edges.
convert_graph_snn_to_nx_snn_duplicates_allowed ==
    <<"assert_synaptic_edgeweight_type_is_correct",
      "old_graph_to_new_graph_properties",
      "verify_networkx_snn_spec",
      "add_nx_neurons_to_networkx_graph">>

convert_graph_snn_to_nx_snn ==
    <<"assert_synaptic_edgeweight_type_is_correct",
      "assert_no_duplicate_edges_exist",
      "old_graph_to_new_graph_properties",
      "verify_networkx_snn_spec",
      "add_nx_neurons_to_networkx_graph">>

\* A variant that records the stage before the graph is converted and simulated.
sim_graphs_marking_first(graph_name) ==
    <<"add_stage_completion_to_graph">>
        \o (IF graph_name # "input_graph"
            THEN convert_graph_snn_to_nx_snn
                     \o <<"get_sim_duration", "run_snn_on_networkx">>
            ELSE << >>)

sim_graphs(graph_name) ==
    (IF graph_name # "input_graph"
     THEN convert_graph_snn_to_nx_snn
              \o <<"get_sim_duration", "run_snn_on_networkx">>
     ELSE << >>)
        \o <<"add_stage_completion_to_graph">>

\* The order in which stage_1_graphs.items() yields the graphs.
GraphOrder == <<"input_graph", "snn_algo_graph", "rad_snn_algo_graph">>

GraphName == GraphOrder[pc.k]
Graph == heap[graphs[GraphName]]
AtCall(name) == pc.at = "call" /\ sim_graphs(GraphName)[pc.i] = name

\* The position after the current call of the current graph has returned.
Returned ==
    IF pc.i < Len(sim_graphs(GraphName))
    THEN [at |-> "call", k |-> pc.k, i |-> pc.i + 1, t |-> 0]
    ELSE IF pc.k < Len(GraphOrder)
    THEN [at |-> "call", k |-> pc.k + 1, i |-> 1, t |-> 0]
    ELSE [at |-> "done", k |-> pc.k, i |-> pc.i, t |-> 0]

Completes(name) ==
    /\ pc' = Returned
    /\ log' = Append(log, [call |-> name, graph |-> GraphName])
    /\ UNCHANGED ret

Raises(name) ==
    /\ pc' = [pc EXCEPT !.at = "raised"]
    /\ ret' = [op |-> name, arg |-> GraphName, out |-> Raise]
    /\ UNCHANGED log

CheckEdgeWeights ==
    /\ AtCall("assert_synaptic_edgeweight_type_is_correct")
    /\ IF edge_weights_checked_from(Graph, 1).exc
       THEN Raises("assert_synaptic_edgeweight_type_is_correct")
       ELSE Completes("assert_synaptic_edgeweight_type_is_correct")
    /\ UNCHANGED <<heap, graphs, alipour_counter_marks>>

AssertNoDuplicateEdges ==
    /\ AtCall("assert_no_duplicate_edges_exist")
    /\ IF assert_no_duplicate_edges_exist(Graph).exc
       THEN Raises("assert_no_duplicate_edges_exist")
       ELSE Completes("assert_no_duplicate_edges_exist")
    /\ UNCHANGED <<heap, graphs, alipour_counter_marks>>

OldGraphToNewGraphProperties ==
    /\ AtCall("old_graph_to_new_graph_properties")
    /\ heap' = [heap EXCEPT ![graphs[GraphName]] =
                   old_graph_to_new_graph_properties(Graph)]
    /\ Completes("old_graph_to_new_graph_properties")
    /\ UNCHANGED <<graphs, alipour_counter_marks>>

VerifyNetworkxSnnSpec ==
    /\ AtCall("verify_networkx_snn_spec")
    /\ IF verify_networkx_snn_spec(Graph).exc
       THEN Raises("verify_networkx_snn_spec")
       ELSE Completes("verify_networkx_snn_spec")
    /\ UNCHANGED <<heap, graphs, alipour_counter_marks>>

AddNxNeurons ==
    /\ AtCall("add_nx_neurons_to_networkx_graph")
    /\ LET call == add_nx_neurons_to_networkx_graph(Graph)
       IN /\ heap' = [heap EXCEPT ![graphs[GraphName]] = call.graph]
          /\ IF call.out.exc
             THEN Raises("add_nx_neurons_to_networkx_graph")
             ELSE Completes("add_nx_neurons_to_networkx_graph")
    /\ UNCHANGED <<graphs, alipour_counter_marks>>

SetSimDuration ==
    /\ AtCall("get_sim_duration")
    /\ heap' = [heap EXCEPT ![graphs[GraphName]].graph =
                   ("sim_duration" :> get_sim_duration(Graph)) @@ @]
    /\ Completes("get_sim_duration")
    /\ UNCHANGED <<graphs, alipour_counter_marks>>

\* run_snn_on_networkx is invoked: the engine starts on the current graph.
RunSnnOnNetworkx ==
    /\ AtCall("run_snn_on_networkx")
    /\ log' = Append(log, [call |-> "run_snn_on_networkx", graph |-> GraphName])
    /\ pc' = IF get_sim_duration(Graph) = 0 THEN Returned
             ELSE [pc EXCEPT !.at = "timestep", !.t = 0]
    /\ UNCHANGED <<heap, graphs, alipour_counter_marks, ret>>

\* One timestep of the engine; after the last one the call returns.
RunTimestep ==
    /\ pc.at = "timestep"
    /\ pc.t < get_sim_duration(Graph)
    /\ heap' = [heap EXCEPT ![graphs[GraphName]] =
                   run_simulation_for_1_timestep(Graph)]
    /\ pc' = IF pc.t + 1 = get_sim_duration(Graph) THEN Returned
             ELSE [pc EXCEPT !.t = pc.t + 1]
    /\ UNCHANGED <<graphs, alipour_counter_marks, ret, log>>

AddStageCompletion ==
    /\ AtCall("add_stage_completion_to_graph")
    /\ heap' = [heap EXCEPT ![graphs[GraphName]] =
                   add_stage_completion_to_graph(Graph, 2)]
    /\ Completes("add_stage_completion_to_graph")
    /\ UNCHANGED <<graphs, alipour_counter_marks>>

(***************************************************************************)
(* The graphs handed to stage 2: a compiled graph, and the same graph with *)
(* rad_death on every node, True for the neurons the radiation killed.  A  *)
(* graph may be malformed in one place.                                    *)
(***************************************************************************)
with_rad_death(G, dead) ==
    [G EXCEPT !.attrs =
        [n \in DOMAIN G.attrs |-> ("rad_death" :> (n \in dead)) @@ G.attrs[n]]]

Defects == {"no_vth", "no_weight", "int_weight", "duplicate_edge"}

Malformed(G, defect) ==
    CASE defect = "no_vth" ->
             [G EXCEPT !.attrs[CounterName(0, MVal)] =
                 [key \in (DOMAIN @) \ {"vth"} |-> @[key]]]
      [] defect = "no_weight" ->
             [G EXCEPT !.edges[1].attrs = EmptyDict]
      [] defect = "int_weight" ->
             [G EXCEPT !.edges[Len(G.edges)].attrs =
                 ("weight" :> Int_(G.edges[Len(G.edges)].attrs["weight"].val))]
      [] defect = "duplicate_edge" ->
             [G EXCEPT !.edges = Append(@, G.edges[1])]
      [] OTHER -> G

Scenarios ==
    {[defect |-> "none", on |-> "none", dead |-> D] :
         D \in {E \in SUBSET (SpikeOnceNames \cup CounterNames) :
                    Cardinality(E) <= MaxDead}}
        \cup {[defect |-> d, on |-> g, dead |-> {}] :
                  d \in Defects, g \in {"snn_algo_graph", "rad_snn_algo_graph"}}

Stage1Done(G) == [G EXCEPT !.graph = ("completed_stages" :> <<1>>) @@ @]

InitSim ==
    /\ \E kinds \in [CounterNames -> CounterKinds] :
       \E from_node \in [NodeIndices -> Weights] :
       \E recurrent \in Weights :
       \E scenario \in Scenarios :
           LET weights == [e \in SynapseCandidates |->
                              IF e[1] \in CounterNames THEN recurrent
                              ELSE from_node[CHOOSE j \in NodeIndices :
                                                 e[1] = SpikeOnceName(j)]]
               G == Stage1Done(CompiledGraph(kinds, weights))
               Given(name, H) ==
                   IF scenario.on = name THEN Malformed(H, scenario.defect) ELSE H
           IN heap = (1 :> Stage1Done(InputGraph))
                         @@ (2 :> Given("snn_algo_graph", G))
                         @@ (3 :> Given("rad_snn_algo_graph",
                                        with_rad_death(G, scenario.dead)))
    /\ graphs = ("input_graph" :> 1) @@ ("snn_algo_graph" :> 2)
                    @@ ("rad_snn_algo_graph" :> 3)
    /\ alipour_counter_marks = EmptyDict
    /\ pc = [at |-> "call", k |-> 1, i |-> 1, t |-> 0]
    /\ ret = NoCall
    /\ log = << >>

NextSim ==
    \/ CheckEdgeWeights
    \/ AssertNoDuplicateEdges
    \/ OldGraphToNewGraphProperties
    \/ VerifyNetworkxSnnSpec
    \/ AddNxNeurons
    \/ SetSimDuration
    \/ RunSnnOnNetworkx
    \/ RunTimestep
    \/ AddStageCompletion

SpecSim == InitSim /\ [][NextSim]_vars

(***************************************************************************)
(* What the simulation claims speak about.                                 *)
(***************************************************************************)
WellFormed(G) ==
    /\ \A k \in DOMAIN G.edges :
           /\ "weight" \in DOMAIN G.edges[k].attrs
           /\ G.edges[k].attrs["weight"].type = "float"
    /\ \A j, k \in DOMAIN G.edges :
           (G.edges[j].src = G.edges[k].src /\ G.edges[j].dst = G.edges[k].dst)
               => j = k
    /\ \A n \in DOMAIN G.attrs : {"bias", "du", "dv", "vth"} \subseteq DOMAIN G.attrs[n]

EngineInvokedOn(g) ==
    \E i \in DOMAIN log : log[i] = [call |-> "run_snn_on_networkx", graph |-> g]

\* C8: the simulation engine is invoked on a graph only after the edge weight
\* check, the duplicate edge check and the verification of the neuron
\* properties have completed on that graph, in this order, and never on a
\* malformed graph; when a check raises, the engine is not invoked on its graph.
SpecGating ==
    /\ \A i \in DOMAIN log :
           log[i].call = "run_snn_on_networkx" =>
               LET g == log[i].graph
                   Done(j, call) == log[j] = [call |-> call, graph |-> g]
               IN /\ g # "input_graph"
                  /\ \E a, b, c \in 1 .. (i - 1) :
                         /\ a < b
                         /\ b < c
                         /\ Done(a, "assert_synaptic_edgeweight_type_is_correct")
                         /\ Done(b, "assert_no_duplicate_edges_exist")
                         /\ Done(c, "verify_networkx_snn_spec")
                  /\ WellFormed(heap[graphs[g]])
    /\ pc.at = "timestep" => EngineInvokedOn(GraphName)
    /\ pc.at = "raised" => ~EngineInvokedOn(GraphName)

\* The second SNN graph lacks vth on a node: its verification raised after the
\* first SNN graph was simulated, and the engine was not invoked on it.
SpecGatingWitness ==
    /\ pc.at = "raised"
    /\ ret.op = "verify_networkx_snn_spec"
    /\ GraphName = "rad_snn_algo_graph"
    /\ \E n \in DOMAIN Graph.attrs : "vth" \notin DOMAIN Graph.attrs[n]
    /\ EngineInvokedOn("snn_algo_graph")
    /\ ~EngineInvokedOn("rad_snn_algo_graph")

RECURSIVE SumOfWeights(_, _)
SumOfWeights(G, K) ==
    IF K = {} THEN 0
    ELSE LET k == CHOOSE j \in K : TRUE
         IN G.edges[k].attrs["weight"].val + SumOfWeights(G, K \ {k})

Neuron(G, n) == G.attrs[n]["nx_LIF"]
IsDead(G, n) == "rad_death" \in DOMAIN G.attrs[n] /\ G.attrs[n]["rad_death"]
SpikingInto(G, n) ==
    {k \in DOMAIN G.edges : G.edges[k].dst = n /\ Neuron(G, G.edges[k].src).spikes}
LiveSpikingInto(G, n) == {k \in SpikingInto(G, n) : ~IsDead(G, G.edges[k].src)}
GraphAfterStep == heap'[graphs[GraphName]]

\* C9: a timestep takes every neuron that is not dead from u, v to
\* u' = u*(1-du) + (the weights of the incoming synapses whose source spiked in
\* the previous timestep) + bias and v*(1-dv) + u'; the neuron spikes exactly
\* when that voltage is at least vth, and then v' is 0, otherwise v' is that
\* voltage.
LifStepRule ==
    [][pc.at = "timestep" =>
           \A n \in DOMAIN Graph.attrs :
               ~IsDead(Graph, n) =>
                   LET old == Neuron(Graph, n)
                       new == Neuron(GraphAfterStep, n)
                       u == old.u * (1 - old.du)
                                + SumOfWeights(Graph, SpikingInto(Graph, n))
                                + old.bias
                       v == old.v * (1 - old.dv) + u
                   IN /\ new.u = u
                      /\ new.spikes = (v >= old.vth)
                      /\ new.v = (IF v >= old.vth THEN 0 ELSE v)
                      /\ <<new.bias, new.du, new.dv, new.vth>>
                             = <<old.bias, old.du, old.dv, old.vth>>]_vars

\* During a simulation a counter has just spiked with its voltage exactly at
\* the threshold, and another neuron, inhibited, holds a negative voltage.
LifStepRuleWitness ==
    /\ pc.at = "timestep"
    /\ pc.t = 2
    /\ \E c \in CounterNames, d \in DOMAIN Graph.attrs :
           /\ ~IsDead(Graph, c)
           /\ Neuron(Graph, c).spikes
           /\ Neuron(Graph, c).v = 0
           /\ Neuron(Graph, c).u = Neuron(Graph, c).vth
           /\ Neuron(Graph, c).dv = 1
           /\ ~Neuron(Graph, d).spikes
           /\ Neuron(Graph, d).v < 0

\* C10: a neuron whose rad_death is true never spikes, its u and v stay as they
\* are in every timestep, and it adds nothing to the current of the neurons
\* its synapses lead to.
DeadNeuronFrozen ==
    /\ [](\A id \in DOMAIN heap : \A n \in DOMAIN heap[id].attrs :
              ("nx_LIF" \in DOMAIN heap[id].attrs[n] /\ IsDead(heap[id], n))
                  => ~Neuron(heap[id], n).spikes)
    /\ [][pc.at = "timestep" =>
              \A n \in DOMAIN Graph.attrs :
                  /\ IsDead(Graph, n) =>
                         /\ Neuron(GraphAfterStep, n) = Neuron(Graph, n)
                         /\ ~Neuron(GraphAfterStep, n).spikes
                  /\ ~IsDead(Graph, n) =>
                         Neuron(GraphAfterStep, n).u =
                             Neuron(Graph, n).u * (1 - Neuron(Graph, n).du)
                                 + SumOfWeights(Graph, LiveSpikingInto(Graph, n))
                                 + Neuron(Graph, n).bias]_vars

\* After two timesteps the dead spike_once_0, with bias 1 and threshold 1, is
\* at rest in the irradiated graph while it spikes in the other graph, and the
\* counter it excites with weight 2 has received nothing from it.
DeadNeuronFrozenWitness ==
    /\ pc.at = "timestep"
    /\ pc.t = 2
    /\ GraphName = "rad_snn_algo_graph"
    /\ IsDead(Graph, SpikeOnceName(0))
    /\ Neuron(Graph, SpikeOnceName(0)).u = 0
    /\ Neuron(Graph, SpikeOnceName(0)).v = 0
    /\ ~Neuron(Graph, SpikeOnceName(0)).spikes
    /\ Neuron(heap[graphs["snn_algo_graph"]], SpikeOnceName(0)).spikes
    /\ \E k \in DOMAIN Graph.edges :
           /\ Graph.edges[k].src = SpikeOnceName(0)
           /\ Graph.edges[k].dst = CounterName(0, MVal)
           /\ Graph.edges[k].attrs["weight"].val = 2
    /\ Neuron(Graph, CounterName(0, MVal)).u = 0
    /\ Neuron(heap[graphs["snn_algo_graph"]], CounterName(0, MVal)).u > 0

\* The graph as neuron n may see it when it computes its update: its own
\* state and the spikes of the sources of its synapses; every other neuron is
\* at rest.
SeenBy(G, n) ==
    [G EXCEPT !.attrs =
        [m \in DOMAIN G.attrs |->
            IF m = n THEN G.attrs[m]
            ELSE [G.attrs[m] EXCEPT !["nx_LIF"] =
                     [@ EXCEPT !.u = 0, !.v = 0,
                               !.spikes = @ /\ \E k \in DOMAIN G.edges :
                                                   /\ G.edges[k].src = m
                                                   /\ G.edges[k].dst = n]]]]

\* The neurons visited in the given order from the k-th on, each computing
\* its update from the graph before the timestep.
RECURSIVE visited_in_order_from(_, _, _, _)
visited_in_order_from(before, G, order, k) ==
    IF k > Len(order) THEN G
    ELSE visited_in_order_from(
             before,
             [G EXCEPT !.attrs[order[k]]["nx_LIF"] = lif_step(before, order[k])],
             order, k + 1)

\* C11: a timestep computes the state of every neuron from the neuron's own
\* state and the spikes its sources had before the timestep, never from the
\* state another neuron has after it, so that visiting the neurons in any
\* order gives the same graph.
SynchronousUpdate ==
    [][pc.at = "timestep" =>
           /\ \A n \in DOMAIN Graph.attrs :
                  Neuron(GraphAfterStep, n) = lif_step(SeenBy(Graph, n), n)
           /\ \A order \in NodeOrders(Graph.nodes) :
                  visited_in_order_from(Graph, Graph, order, 1) = GraphAfterStep]_vars

\* A timestep is about to change the spikes of a live neuron that has a
\* synapse to another live neuron, whose update would be another one if it
\* read the spikes the first neuron has after the timestep.
SynchronousUpdateWitness ==
    /\ pc.at = "timestep"
    /\ \E k \in DOMAIN Graph.edges :
           LET s == Graph.edges[k].src
               n == Graph.edges[k].dst
           IN /\ s # n
              /\ ~IsDead(Graph, s)
              /\ ~IsDead(Graph, n)
              /\ lif_step(Graph, s).spikes # Neuron(Graph, s).spikes
              /\ lif_step(Graph, n) #
                     lif_step([Graph EXCEPT !.attrs[s]["nx_LIF"] = lif_step(Graph, s)], n)

(***************************************************************************)
(* The engine as one call, from the design: run_snn_on_networkx takes the  *)
(* graph through sim_duration timesteps, starting from the state the graph *)
(* is in.  A run may be followed by another run on the same graph.         *)
(***************************************************************************)
RECURSIVE timesteps(_, _)
timesteps(G, n) ==
    IF n <= 0 THEN G ELSE timesteps(run_simulation_for_1_timestep(G), n - 1)

at_rest(G) ==
    [G EXCEPT !.attrs =
        [n \in DOMAIN G.attrs |->
            [G.attrs[n] EXCEPT !["nx_LIF"] = [@ EXCEPT !.u = 0, !.v = 0, !.spikes = FALSE]]]]

\* A variant that puts every neuron at rest when it is invoked.
run_snn_on_networkx_from_rest(G, sim_duration) == timesteps(at_rest(G), sim_duration)

run_snn_on_networkx(G, sim_duration) == timesteps(G, sim_duration)

SplitGraph == heap[graphs["split_run"]]
SingleGraph == heap[graphs["single_run"]]

InitSplitRun ==
    /\ \E kinds \in [CounterNames -> CounterKinds] :
       \E from_node \in Weights :
       \E recurrent \in Weights :
       \E dead \in {E \in SUBSET (SpikeOnceNames \cup CounterNames) :
                        Cardinality(E) <= MaxDead} :
           LET weights == [e \in SynapseCandidates |->
                              IF e[1] \in CounterNames THEN recurrent ELSE from_node]
               G == add_nx_neurons_to_networkx_graph(
                        with_rad_death(CompiledGraph(kinds, weights), dead)).graph
           IN heap = (1 :> G) @@ (2 :> G)
    /\ graphs = ("split_run" :> 1) @@ ("single_run" :> 2)
    /\ alipour_counter_marks = EmptyDict
    /\ \E t, k \in 0 .. SimDuration :
           /\ t + k <= SimDuration
           /\ pc = [at |-> "split", t |-> t, k |-> k,
                    first |-> FALSE, second |-> FALSE, single |-> FALSE]
    /\ ret = NoCall
    /\ log = << >>

\* The engine runs the first graph for t timesteps.
RunFirst ==
    /\ pc.at = "split"
    /\ ~pc.first
    /\ heap' = [heap EXCEPT ![graphs["split_run"]] =
                   run_snn_on_networkx(SplitGraph, pc.t)]
    /\ pc' = [pc EXCEPT !.first = TRUE]
    /\ UNCHANGED <<graphs, alipour_counter_marks, ret, log>>

\* The engine continues the first graph for k timesteps more.
RunSecond ==
    /\ pc.at = "split"
    /\ pc.first
    /\ ~pc.second
    /\ heap' = [heap EXCEPT ![graphs["split_run"]] =
                   run_snn_on_networkx(SplitGraph, pc.k)]
    /\ pc' = [pc EXCEPT !.second = TRUE]
    /\ UNCHANGED <<graphs, alipour_counter_marks, ret, log>>

\* The engine runs the second graph for t+k timesteps at once.
RunSingle ==
    /\ pc.at = "split"
    /\ ~pc.single
    /\ heap' = [heap EXCEPT ![graphs["single_run"]] =
                   run_snn_on_networkx(SingleGraph, pc.t + pc.k)]
    /\ pc' = [pc EXCEPT !.single = TRUE]
    /\ UNCHANGED <<graphs, alipour_counter_marks, ret, log>>

NextSplitRun ==
    \/ RunFirst
    \/ RunSecond
    \/ RunSingle

SpecSplitRun == InitSplitRun /\ [][NextSplitRun]_vars

Bool(x) == [type |-> "bool", val |-> x]
Str(x) == [type |-> "str", val |-> x]
\* None, as a number, as a name and as a level (the values of one set share
\* the shape of their val).
None_ == [type |-> "NoneType", val |-> 0]
NoName == [type |-> "NoneType", val |-> "None"]
NoLevel == [type |-> "NoneType", val |-> [num |-> 0, den |-> 1]]
NoGraph == 0    \* the None that a function returns in place of a graph

\* isinstance(x, int) holds for a bool as well: bool is a subclass of int.
isinstance_int(x) == x.type \in {"int", "bool"}
isinstance_float(x) == x.type = "float"

Item(name, setting) == [name |-> name, setting |-> setting]

\* Used_graphs.get_graphs, from the design: the input graphs of a size, here
\* the path and the graph on the same nodes without edges.
get_graphs(graph_size) == <<InputGraph, [InputGraph EXCEPT !.edges = << >>]>>

\* input_graphs[graph_nr] of a Python list: the positions count from 0, a
\* negative position counts from the end, and a position outside the list
\* raises (IndexError).
list_position(input_graphs, graph_nr) ==
    IF graph_nr >= 0 THEN graph_nr + 1 ELSE Len(input_graphs) + graph_nr + 1

\* A variant that returns the last graph when graph_nr is too large.
get_the_input_graphs_clamping(h, run_config) ==
    LET input_graphs == get_graphs(run_config.graph_size)
        position == IF Len(input_graphs) > run_config.graph_nr
                    THEN list_position(input_graphs, run_config.graph_nr)
                    ELSE Len(input_graphs)
    IN IF position \in DOMAIN input_graphs
       THEN [heap |-> (FreshId(h) :> input_graphs[position]) @@ h,
             out |-> Return(FreshId(h))]
       ELSE [heap |-> h, out |-> Raise]

\* stage_1_get_input_graphs.py: get_the_input_graphs.
get_the_input_graphs(h, run_config) ==
    LET input_graphs == get_graphs(run_config.graph_size)
        position == list_position(input_graphs, run_config.graph_nr)
    IN IF Len(input_graphs) > run_config.graph_nr
       THEN IF position \in DOMAIN input_graphs
            THEN [heap |-> (FreshId(h) :> input_graphs[position]) @@ h,
                  out |-> Return(FreshId(h))]
            ELSE [heap |-> h, out |-> Raise]
       ELSE [heap |-> h, out |-> Raise]

\* A variant that marks every node of the input graph as not dead.
get_input_graph_defaulting(h, run_config) ==
    LET input_graph == get_the_input_graphs(h, run_config)
    IN IF input_graph.out.exc THEN input_graph
       ELSE [input_graph EXCEPT !.heap[input_graph.out.val] = with_rad_death(@, {})]

get_input_graph(h, run_config) == get_the_input_graphs(h, run_config)

\* specify_mdsa_network_properties, from the design: a new graph with the
\* neurons spike_once_i and counter_i_m of every input node i and their
\* synapses, the same graph for the same arguments.
specify_mdsa_network_properties(h, input_graph, m_val, seed) ==
    LET kinds == [c \in CounterNames |-> NodeSpec(0, 0, 1, 1)]
        weights == [e \in SynapseCandidates |-> 2]
    IN [heap |-> (FreshId(h) :> CompiledGraph(kinds, weights)) @@ h,
        id |-> FreshId(h)]

Unbound == [bound |-> FALSE]
Bound(x) == [bound |-> TRUE, val |-> x]
CompilerCall(m_val) == [call |-> "specify_mdsa_network_properties", m_val |-> m_val]

\* A variant that compiles whatever the m_val setting is.
visit_algorithm_unchecked(h, input_graph, run_config, algo, snn_algo_graph, calls) ==
    IF algo.name = "MDSA"
    THEN IF ~HasKey(algo.setting, "m_val")
         THEN [heap |-> h, exc |-> TRUE, snn_algo_graph |-> snn_algo_graph, calls |-> calls]
         ELSE LET compiled == specify_mdsa_network_properties(
                                  h, input_graph, algo.setting["m_val"], run_config.seed)
              IN [heap |-> compiled.heap, exc |-> FALSE,
                  snn_algo_graph |-> Bound(compiled.id),
                  calls |-> Append(calls, CompilerCall(algo.setting["m_val"]))]
    ELSE [heap |-> h, exc |-> TRUE, snn_algo_graph |-> snn_algo_graph, calls |-> calls]

\* A variant that passes over the algorithm names it does not support.
visit_algorithm_skipping(h, input_graph, run_config, algo, snn_algo_graph, calls) ==
    IF algo.name = "MDSA"
    THEN IF ~HasKey(algo.setting, "m_val")
         THEN [heap |-> h, exc |-> TRUE, snn_algo_graph |-> snn_algo_graph, calls |-> calls]
         ELSE IF isinstance_int(algo.setting["m_val"])
         THEN LET compiled == specify_mdsa_network_properties(
                                  h, input_graph, algo.setting["m_val"], run_config.seed)
              IN [heap |-> compiled.heap, exc |-> FALSE,
                  snn_algo_graph |-> Bound(compiled.id),
                  calls |-> Append(calls, CompilerCall(algo.setting["m_val"]))]
         ELSE [heap |-> h, exc |-> TRUE, snn_algo_graph |-> snn_algo_graph, calls |-> calls]
    ELSE [heap |-> h, exc |-> FALSE, snn_algo_graph |-> snn_algo_graph, calls |-> calls]

\* stage_1_get_input_graphs.py: get_snn_algo_graph, the body of the loop for
\* one item of run_config["algorithm"].  Reading a missing m_val raises
\* (KeyError).
visit_algorithm(h, input_graph, run_config, algo, snn_algo_graph, calls) ==
    IF algo.name = "MDSA"
    THEN IF ~HasKey(algo.setting, "m_val")
         THEN [heap |-> h, exc |-> TRUE, snn_algo_graph |-> snn_algo_graph, calls |-> calls]
         ELSE IF isinstance_int(algo.setting["m_val"])
         THEN LET compiled == specify_mdsa_network_properties(
                                  h, input_graph, algo.setting["m_val"], run_config.seed)
              IN [heap |-> compiled.heap, exc |-> FALSE,
                  snn_algo_graph |-> Bound(compiled.id),
                  calls |-> Append(calls, CompilerCall(algo.setting["m_val"]))]
         ELSE [heap |-> h, exc |-> TRUE, snn_algo_graph |-> snn_algo_graph, calls |-> calls]
    ELSE [heap |-> h, exc |-> TRUE, snn_algo_graph |-> snn_algo_graph, calls |-> calls]

\* A variant that returns None when no graph was compiled.
return_snn_algo_graph_or_none(snn_algo_graph) ==
    IF snn_algo_graph.bound THEN Return(snn_algo_graph.val) ELSE Return(NoGraph)

\* return snn_algo_graph: reading the local before it was assigned raises
\* (UnboundLocalError).
return_snn_algo_graph(snn_algo_graph) ==
    IF snn_algo_graph.bound THEN Return(snn_algo_graph.val) ELSE Raise

RECURSIVE get_snn_algo_graph_from(_, _, _, _, _, _)
get_snn_algo_graph_from(h, input_graph, run_config, k, snn_algo_graph, calls) ==
    IF k > Len(run_config.algorithm)
    THEN [heap |-> h, out |-> return_snn_algo_graph(snn_algo_graph), calls |-> calls]
    ELSE LET visit == visit_algorithm(h, input_graph, run_config,
                                      run_config.algorithm[k], snn_algo_graph, calls)
         IN IF visit.exc
            THEN [heap |-> visit.heap, out |-> Raise, calls |-> visit.calls]
            ELSE get_snn_algo_graph_from(visit.heap, input_graph, run_config, k + 1,
                                         visit.snn_algo_graph, visit.calls)

get_snn_algo_graph(h, input_graph, run_config) ==
    get_snn_algo_graph_from(h, input_graph, run_config, 1, Unbound, << >>)

(***************************************************************************)
(* stage_1_get_input_graphs.py: has_adaptation, get_adapted_graph and      *)
(* get_used_graphs.  The names of run_config["adaptation"] may be None.    *)
(***************************************************************************)
RECURSIVE has_adaptation_from(_, _)
has_adaptation_from(run_config, k) ==
    IF k > Len(run_config.adaptation) THEN FALSE
    ELSE IF run_config.adaptation[k].name # NoName THEN TRUE
    ELSE has_adaptation_from(run_config, k + 1)

has_adaptation(run_config) == has_adaptation_from(run_config, 1)

\* pprint(adapatation_name) in the loop of get_adapted_graph.
AdaptationCall(adapatation_name) ==
    [call |-> "get_adapted_graph", adapatation_name |-> adapatation_name]

\* The loop returns or raises at the first item; without items the function
\* returns None.  calls holds the adaptation names the loop has looked at.
get_adapted_graph(h, snn_algo_graph, run_config) ==
    IF Len(run_config.adaptation) = 0
    THEN [heap |-> h, out |-> Return(NoGraph), calls |-> << >>]
    ELSE LET adapatation_name == run_config.adaptation[1].name
             adaptation_setting == run_config.adaptation[1].setting
             calls == <<AdaptationCall(adapatation_name)>>
         IN IF adapatation_name = NoName
            THEN [heap |-> h, out |-> Raise, calls |-> calls]
            ELSE IF adapatation_name = Str("redundancy")
            THEN IF ~isinstance_float(adaptation_setting)
                 THEN [heap |-> h, out |-> Raise, calls |-> calls]
                 ELSE LET adaptation_graph ==
                              get_redundant_graph(h, snn_algo_graph,
                                                  adaptation_setting.val)
                      IN [heap |-> adaptation_graph.heap,
                          out |-> adaptation_graph.out, calls |-> calls]
            ELSE [heap |-> h, out |-> Raise, calls |-> calls]

\* A variant that adds the adapted graph whatever the adaptation names are.
get_used_graphs_always_adapting(h, run_config) ==
    LET input_graph == get_input_graph(h, run_config)
    IN IF input_graph.out.exc
       THEN [heap |-> input_graph.heap, out |-> Raise, calls |-> << >>]
       ELSE
    LET snn_algo_graph ==
            get_snn_algo_graph(input_graph.heap, input_graph.out.val, run_config)
    IN IF snn_algo_graph.out.exc
       THEN [heap |-> snn_algo_graph.heap, out |-> Raise, calls |-> snn_algo_graph.calls]
       ELSE
    LET two == ("input_graph" :> input_graph.out.val)
                   @@ ("snn_algo_graph" :> snn_algo_graph.out.val)
        adapted == get_adapted_graph(snn_algo_graph.heap, snn_algo_graph.out.val,
                                     run_config)
    IN IF adapted.out.exc
       THEN [heap |-> adapted.heap, out |-> Raise,
             calls |-> snn_algo_graph.calls \o adapted.calls]
       ELSE [heap |-> adapted.heap,
             out |-> Return(two @@ ("adapted_snn_graph" :> adapted.out.val)),
             calls |-> snn_algo_graph.calls \o adapted.calls]

\* Returns the heap after the call, the graphs dict or the exception, and the
\* invocations of the compiler.
get_used_graphs(h, run_config) ==
    LET input_graph == get_input_graph(h, run_config)
    IN IF input_graph.out.exc
       THEN [heap |-> input_graph.heap, out |-> Raise, calls |-> << >>]
       ELSE
    LET snn_algo_graph ==
            get_snn_algo_graph(input_graph.heap, input_graph.out.val, run_config)
    IN IF snn_algo_graph.out.exc
       THEN [heap |-> snn_algo_graph.heap, out |-> Raise, calls |-> snn_algo_graph.calls]
       ELSE
    LET two == ("input_graph" :> input_graph.out.val)
                   @@ ("snn_algo_graph" :> snn_algo_graph.out.val)
    IN IF ~has_adaptation(run_config)
       THEN [heap |-> snn_algo_graph.heap, out |-> Return(two),
             calls |-> snn_algo_graph.calls]
       ELSE
    LET adapted == get_adapted_graph(snn_algo_graph.heap, snn_algo_graph.out.val,
                                     run_config)
    IN IF adapted.out.exc
       THEN [heap |-> adapted.heap, out |-> Raise,
             calls |-> snn_algo_graph.calls \o adapted.calls]
       ELSE [heap |-> adapted.heap,
             out |-> Return(two @@ ("adapted_snn_graph" :> adapted.out.val)),
             calls |-> snn_algo_graph.calls \o adapted.calls]

(***************************************************************************)
(* The run configurations that are tried.                                  *)
(***************************************************************************)
AlgoNames == {"MDSA", "mdsa", "other_algorithm"}
MValSettings ==
    {"m_val" :> x : x \in {Int_(MVal), Bool(1), Float(MVal), Str(MVal), None_}}
        \cup {EmptyDict}
AlgoItems ==
    {Item("MDSA", setting) : setting \in MValSettings}
        \cup {Item(name, EmptyDict) : name \in AlgoNames \ {"MDSA"}}
Algorithms ==
    {<< >>} \cup {<<a>> : a \in AlgoItems}
        \cup {q \in AlgoItems \X AlgoItems : q[1].name # q[2].name}

AdaptationItems ==
    {Item(NoName, NoLevel), Item(Str("other_adaptation"), NoLevel),
     Item(Str("redundancy"), Int_(Level(1, 1)))}
        \cup {Item(Str("redundancy"), Float(level)) : level \in RedLevels}
Adaptations ==
    {<< >>} \cup {<<a>> : a \in AdaptationItems}
        \cup {q \in AdaptationItems \X AdaptationItems : q[1].name # q[2].name}

\* The graph numbers: inside the list of input graphs, behind its end and
\* before its start.
GraphNrs == -3 .. 2

RunConfigs ==
    [algorithm : Algorithms, adaptation : Adaptations, seed : {42},
     graph_size : {NumNodes}, graph_nr : GraphNrs]

InitStage1 ==
    /\ heap = (1 :> InputGraph)
    /\ graphs = EmptyDict
    /\ alipour_counter_marks = EmptyDict
    /\ pc = "idle"
    /\ ret = NoCall
    /\ log = << >>

GetSnnAlgoGraph ==
    /\ pc = "idle"
    /\ \E run_config \in RunConfigs :
           LET call == get_snn_algo_graph(heap, 1, run_config)
           IN /\ heap' = call.heap
              /\ ret' = [op |-> "get_snn_algo_graph", arg |-> run_config,
                         out |-> call.out]
              /\ log' = call.calls
    /\ pc' = "done"
    /\ UNCHANGED <<graphs, alipour_counter_marks>>

GetUsedGraphs ==
    /\ pc = "idle"
    /\ \E run_config \in RunConfigs :
           LET call == get_used_graphs(heap, run_config)
           IN /\ heap' = call.heap
              /\ ret' = [op |-> "get_used_graphs", arg |-> run_config,
                         out |-> call.out]
              /\ log' = call.calls
              /\ graphs' = IF call.out.exc THEN graphs ELSE call.out.val
    /\ pc' = "done"
    /\ UNCHANGED alipour_counter_marks

GetTheInputGraphs ==
    /\ pc = "idle"
    /\ \E run_config \in RunConfigs :
           LET call == get_the_input_graphs(heap, run_config)
           IN /\ heap' = call.heap
              /\ ret' = [op |-> "get_the_input_graphs", arg |-> run_config,
                         out |-> call.out]
    /\ pc' = "done"
    /\ UNCHANGED <<graphs, alipour_counter_marks, log>>

\* get_adapted_graph on a compiled graph.
GetAdaptedGraph ==
    /\ pc = "idle"
    /\ \E run_config \in RunConfigs :
           LET compiled == specify_mdsa_network_properties(
                               heap, 1, Int_(MVal), run_config.seed)
               call == get_adapted_graph(compiled.heap, compiled.id, run_config)
           IN /\ heap' = call.heap
              /\ graphs' = ("snn_algo_graph" :> compiled.id)
              /\ ret' = [op |-> "get_adapted_graph", arg |-> run_config,
                         out |-> call.out]
              /\ log' = call.calls
    /\ pc' = "done"
    /\ UNCHANGED alipour_counter_marks

NextStage1 ==
    \/ GetSnnAlgoGraph
    \/ GetUsedGraphs
    \/ GetTheInputGraphs
    \/ GetAdaptedGraph

SpecStage1 == InitStage1 /\ [][NextStage1]_vars

(***************************************************************************)
(* What the stage 1 claims speak about.                                    *)
(***************************************************************************)
\* The integers of Python: int and its subclass bool.
IsInteger(x) == x.type \in {"int", "bool"}
Requested == ret.arg.algorithm
MValNotInteger(algo) ==
    /\ algo.name = "MDSA"
    /\ "m_val" \in DOMAIN algo.setting => ~IsInteger(algo.setting["m_val"])
CompilerInvoked ==
    \E i \in DOMAIN log : log[i].call = "specify_mdsa_network_properties"

\* C13: get_snn_algo_graph raises whenever the m_val setting of MDSA is not
\* an integer, and then the compiler was not invoked and no graph was made.
NonIntegerMValFails ==
    (Called("get_snn_algo_graph")
         /\ \E k \in DOMAIN Requested : MValNotInteger(Requested[k])) =>
        /\ ret.out.exc
        /\ ~CompilerInvoked
        /\ DOMAIN heap = {1}

\* MDSA alone was requested, with the float 1.0 as m_val: the call raised.
NonIntegerMValFailsWitness ==
    /\ Called("get_snn_algo_graph")
    /\ Len(Requested) = 1
    /\ Requested[1].name = "MDSA"
    /\ "m_val" \in DOMAIN Requested[1].setting
    /\ Requested[1].setting["m_val"].type = "float"
    /\ ret.out.exc
    /\ ~CompilerInvoked

\* C14: get_snn_algo_graph, and get_used_graphs with it, raises whenever
\* run_config["algorithm"] holds more than one algorithm, whatever they are
\* and in whatever order.
MoreThanOneAlgorithmFails ==
    ((Called("get_snn_algo_graph") \/ Called("get_used_graphs"))
         /\ Len(Requested) > 1) =>
        ret.out.exc

\* MDSA with an integer m_val was requested first and another algorithm
\* second: the compiler was invoked and the call raised afterwards.
MoreThanOneAlgorithmFailsWitness ==
    /\ Called("get_snn_algo_graph")
    /\ Len(Requested) = 2
    /\ Requested[1].name = "MDSA"
    /\ CompilerInvoked
    /\ ret.out.exc

\* C15: get_snn_algo_graph raises whenever a requested algorithm is not
\* MDSA, and when it returns it returns the graph the compiler made for
\* MDSA; for an empty mapping it raises.
UnsupportedAlgorithmFails ==
    Called("get_snn_algo_graph") =>
        /\ (\E k \in DOMAIN Requested : Requested[k].name # "MDSA") => ret.out.exc
        /\ Len(Requested) = 0 => ret.out.exc
        /\ ~ret.out.exc =>
               /\ Len(log) = 1
               /\ IsInteger(log[1].m_val)
               /\ ret.out.val \in (DOMAIN heap) \ {1}
               /\ DOMAIN heap[ret.out.val].attrs = SpikeOnceNames \cup CounterNames

\* No algorithm was requested: the call raised and made no graph.
UnsupportedAlgorithmFailsWitness ==
    /\ Called("get_snn_algo_graph")
    /\ Len(Requested) = 0
    /\ ret.out.exc
    /\ DOMAIN heap = {1}

\* C19: the graphs that get_used_graphs returns are input_graph,
\* snn_algo_graph and, with an adaptation, adapted_snn_graph, and none of
\* their nodes has the rad_death key.
NoRadDeathWithoutInjection ==
    (Called("get_used_graphs") /\ ~ret.out.exc) =>
        /\ {"input_graph", "snn_algo_graph"} \subseteq DOMAIN ret.out.val
        /\ DOMAIN ret.out.val \subseteq
               {"input_graph", "snn_algo_graph", "adapted_snn_graph"}
        /\ \A name \in DOMAIN ret.out.val :
               /\ ret.out.val[name] \in DOMAIN heap
               /\ \A n \in DOMAIN heap[ret.out.val[name]].attrs :
                      "rad_death" \notin DOMAIN heap[ret.out.val[name]].attrs[n]

\* The three graphs were returned, the adapted one with the twin of a counter.
NoRadDeathWithoutInjectionWitness ==
    /\ Called("get_used_graphs")
    /\ ~ret.out.exc
    /\ DOMAIN graphs = {"input_graph", "snn_algo_graph", "adapted_snn_graph"}
    /\ RedName(CounterName(0, MVal)) \in DOMAIN heap[graphs["adapted_snn_graph"]].attrs
    /\ RedName(CounterName(0, MVal)) \notin DOMAIN heap[graphs["snn_algo_graph"]].attrs

(***************************************************************************)
(* get_mdsa_results.py: get_mdsa_snn_results.  stage_2_graphs is the       *)
(* sequence of its items in insertion order; the value of an item is a     *)
(* graph or a list of graphs (ids holds the list, or the one graph).       *)
(***************************************************************************)
GraphItem(name, is_list, ids) == [name |-> name, is_list |-> is_list, ids |-> ids]

\* get_alipour_nodes, from the design: the reference count of every node.
get_alipour_nodes(input_graph, m_val, alg_props) == alipour_counter_marks

ItemIndex(stage_2_graphs, name) ==
    {k \in DOMAIN stage_2_graphs : stage_2_graphs[k].name = name}

\* A variant that names the results after the graphs.
result_key_of_graph_name(graph_name) == graph_name

\* The key under which the branch of a graph name stores its result.
result_key(graph_name) ==
    CASE graph_name = "snn_algo_graph" -> "snn_algo_result"
      [] graph_name = "adapted_snn_graph" -> "adapted_snn_algo_result"
      [] graph_name = "rad_snn_algo_graph" -> "rad_snn_algo_graph"
      [] graph_name = "rad_adapted_snn_graph" -> "rad_adapted_snn_graph"

\* The names that have a branch, and the redundant argument of the branch.
has_branch(graph_name) ==
    graph_name \in {"snn_algo_graph", "adapted_snn_graph",
                    "rad_snn_algo_graph", "rad_adapted_snn_graph"}
redundant_of(graph_name) ==
    graph_name \in {"adapted_snn_graph", "rad_adapted_snn_graph"}

\* The loop over stage_2_graphs.items() from the k-th item on:
\* latest_snn_graph is assigned only when the value is a list (graph[-1]
\* raises on an empty list) and is read by every branch (unassigned, it
\* raises); a name without a branch is passed over.  passed holds, for every
\* branch taken, the graph name and the snn_graph argument of get_snn_results.
SnnGraphArgument(graph_name, latest_snn_graph) ==
    [graph_name |-> graph_name, snn_graph |-> latest_snn_graph]

RECURSIVE snn_results_from(_, _, _, _, _, _, _, _)
snn_results_from(h, marks, m_val, stage_2_graphs, k, latest_snn_graph, results, passed) ==
    IF k > Len(stage_2_graphs) THEN [out |-> Return(results), passed |-> passed]
    ELSE
    LET item == stage_2_graphs[k]
        input_graph == h[stage_2_graphs[
                             CHOOSE j \in ItemIndex(stage_2_graphs, "input_graph") : TRUE
                         ].ids[1]]
    IN IF item.is_list /\ Len(item.ids) = 0
       THEN [out |-> Raise, passed |-> passed]
       ELSE
    LET latest == IF item.is_list THEN Bound(item.ids[Len(item.ids)])
                  ELSE latest_snn_graph
        arguments == Append(passed, SnnGraphArgument(item.name, latest))
    IN IF ~has_branch(item.name)
       THEN snn_results_from(h, marks, m_val, stage_2_graphs, k + 1, latest, results,
                             passed)
       ELSE IF ~latest.bound THEN [out |-> Raise, passed |-> arguments]
       ELSE
    LET result == get_snn_results(marks, input_graph, m_val,
                                  redundant_of(item.name), h[latest.val])
    IN IF result.exc THEN [out |-> Raise, passed |-> arguments]
       ELSE snn_results_from(h, marks, m_val, stage_2_graphs, k + 1, latest,
                             (result_key(item.name) :> result.val) @@ results,
                             arguments)

\* Reading stage_2_graphs["input_graph"].graph["alg_props"] raises when the
\* item is missing, is a list, or has no alg_props.
get_mdsa_snn_results(h, m_val, stage_2_graphs) ==
    LET at == ItemIndex(stage_2_graphs, "input_graph")
    IN IF at = {} THEN [out |-> Raise, passed |-> << >>]
       ELSE LET item == stage_2_graphs[CHOOSE j \in at : TRUE]
            IN IF item.is_list THEN [out |-> Raise, passed |-> << >>]
               ELSE IF ~HasKey(h[item.ids[1]].graph, "alg_props")
               THEN [out |-> Raise, passed |-> << >>]
               ELSE snn_results_from(
                        h,
                        get_alipour_nodes(h[item.ids[1]], m_val,
                                          h[item.ids[1]].graph["alg_props"]),
                        m_val, stage_2_graphs, 1, Unbound, EmptyDict, << >>)

(***************************************************************************)
(* The stage 2 graphs handed to get_mdsa_snn_results: the input graph and  *)
(* any of the four SNN graphs and of a graph of another name, each a list  *)
(* of the graph at rest and the graph after the simulation.  One value may *)
(* be a graph instead of a list, or an empty list.                         *)
(***************************************************************************)
VariantOrder ==
    <<"snn_algo_graph", "adapted_snn_graph", "rad_snn_algo_graph",
      "rad_adapted_snn_graph", "unknown_graph">>
VariantNames == Range(VariantOrder)
VariantIndex(name) == CHOOSE j \in DOMAIN VariantOrder : VariantOrder[j] = name
RestId(name) == 2 * VariantIndex(name)
FinalId(name) == 2 * VariantIndex(name) + 1

IsAdaptedName(name) == name \in {"adapted_snn_graph", "rad_adapted_snn_graph"}
IsRadName(name) == name \in {"rad_snn_algo_graph", "rad_adapted_snn_graph"}

\* The simulated graph of a variant: the counters hold us, the twins of an
\* adapted graph too; in an irradiated graph counter_0_m is dead and holds 0.
SimulatedGraph(name, us) ==
    LET names == ReadoutNames(IsAdaptedName(name))
        dead == CounterName(0, MVal)
    IN ReadoutGraph(
           names,
           [n \in names |->
               IF IsRadName(name) /\ n = dead THEN 0
               ELSE IF n \in CounterNames THEN us[n]
               ELSE us[CHOOSE c \in CounterNames : RedName(c) = n]],
           IF IsRadName(name) THEN [n \in names |-> n = dead] ELSE EmptyDict)

InputShapes == {"graph", "list", "no_alg_props", "absent"}
InputItem(shape) ==
    IF shape = "absent" THEN << >>
    ELSE <<GraphItem("input_graph", shape = "list", <<1>>)>>

VariantItem(name, shape) ==
    CASE shape = "graph" -> GraphItem(name, FALSE, <<FinalId(name)>>)
      [] shape = "empty_list" -> GraphItem(name, TRUE, << >>)
      [] OTHER -> GraphItem(name, TRUE, <<RestId(name), FinalId(name)>>)

InitResults ==
    /\ \E us \in [CounterNames -> Counts] :
       \E input_shape \in InputShapes :
           heap = (1 :> [InputGraph EXCEPT !.graph =
                            IF input_shape = "no_alg_props" THEN EmptyDict
                            ELSE ("alg_props" :> TRUE)])
                      @@ [id \in 2 .. (2 * Len(VariantOrder) + 1) |->
                             LET name == VariantOrder[id \div 2]
                             IN SimulatedGraph(
                                    name,
                                    IF id = RestId(name)
                                    THEN [c \in CounterNames |-> 0] ELSE us)]
    /\ \E present \in SUBSET VariantNames :
       \E reversed, input_last \in BOOLEAN :
       \E input_shape \in InputShapes :
       \E odd \in present \cup {"none"} :
       \E shape \in {"graph", "empty_list"} :
           LET chosen == SelectSeq(VariantOrder, LAMBDA name : name \in present)
               ordered == IF reversed THEN Reverse(chosen) ELSE chosen
               items == [k \in DOMAIN ordered |->
                            VariantItem(ordered[k],
                                        IF ordered[k] = odd THEN shape ELSE "list")]
           IN /\ (input_shape = "no_alg_props") = ~HasKey(heap[1].graph, "alg_props")
              /\ graphs = IF input_last THEN items \o InputItem(input_shape)
                          ELSE InputItem(input_shape) \o items
    /\ alipour_counter_marks = [c \in CounterNames |-> 7]
    /\ pc = "idle"
    /\ ret = NoCall
    /\ log = << >>

GetMdsaSnnResults ==
    /\ pc = "idle"
    /\ LET call == get_mdsa_snn_results(heap, MVal, graphs)
       IN /\ ret' = [op |-> "get_mdsa_snn_results", arg |-> MVal, out |-> call.out]
          /\ log' = call.passed
    /\ pc' = "done"
    /\ UNCHANGED <<heap, graphs, alipour_counter_marks>>

NextResults == GetMdsaSnnResults

SpecResults == InitResults /\ [][NextResults]_vars

(***************************************************************************)
(* What the result claims speak about.                                     *)
(***************************************************************************)
ResultNameOf ==
    ("snn_algo_graph" :> "snn_algo_result")
        @@ ("adapted_snn_graph" :> "adapted_snn_algo_result")
        @@ ("rad_snn_algo_graph" :> "rad_snn_algo_graph")
        @@ ("rad_adapted_snn_graph" :> "rad_adapted_snn_graph")
GraphNamesGiven == {graphs[k].name : k \in DOMAIN graphs}

UnrecognisedVariantFails ==
    (Called("get_mdsa_snn_results")
         /\ \E name \in GraphNamesGiven :
                name \notin {"input_graph"} \cup DOMAIN ResultNameOf) =>
        ret.out.exc

\* C18: the readout without redundancy, called by itself or by
\* get_snn_results with redundant = False, returns for every input node i
\* the current u of counter_i_m itself, whether or not that neuron is dead,
\* has a twin, or the graph is marked with rad_death on some nodes only.
ReadoutIgnoresFaults ==
    (Called("get_nx_LIF_count_without_redundancy")
         \/ (Called("get_snn_results") /\ ~ret.arg)) =>
        /\ ~ret.out.exc
        /\ CounterNames \subseteq DOMAIN ret.out.val
        /\ \A i \in NodeIndices :
               ret.out.val[CounterName(i, MVal)] = U(SnnGraph, CounterName(i, MVal))

\* A dead counter holds 0 and its twin 7: the readout returned 0 for it.
ReadoutIgnoresFaultsWitness ==
    /\ Called("get_nx_LIF_count_without_redundancy")
    /\ ~ret.out.exc
    /\ DOMAIN ret.out.val = CounterNames
    /\ \E c \in CounterNames :
           /\ Dead(SnnGraph, c)
           /\ HasTwin(SnnGraph, c)
           /\ U(SnnGraph, RedName(c)) = 7
           /\ U(SnnGraph, c) = 0
           /\ ret.out.val[c] = 0

NrOfEdges(G, a, b) ==
    Cardinality({k \in DOMAIN G.edges : G.edges[k].src = a /\ G.edges[k].dst = b})
AtMostOneEdgePerPair(G) ==
    \A a, b \in DOMAIN G.attrs : NrOfEdges(G, a, b) <= 1
HasNeuronObject(G) == \E n \in DOMAIN G.attrs : "nx_LIF" \in DOMAIN G.attrs[n]
CompletedOn(call, g) == \E i \in DOMAIN log : log[i] = [call |-> call, graph |-> g]

\* C20: a graph on which the engine is invoked, or that has a neuron object,
\* has at most one edge for every ordered pair of nodes; a graph with two
\* edges for one pair gets past no call from assert_no_duplicate_edges_exist
\* on, which raises on it before a neuron object exists or a timestep runs.
NoDuplicateEdges ==
    /\ \A g \in {"snn_algo_graph", "rad_snn_algo_graph"} :
           LET G == heap[graphs[g]]
           IN /\ (EngineInvokedOn(g) \/ HasNeuronObject(G)) => AtMostOneEdgePerPair(G)
              /\ ~AtMostOneEdgePerPair(G) =>
                     \A call \in {"assert_no_duplicate_edges_exist",
                                   "old_graph_to_new_graph_properties",
                                   "verify_networkx_snn_spec",
                                   "add_nx_neurons_to_networkx_graph",
                                   "get_sim_duration", "run_snn_on_networkx"} :
                         ~CompletedOn(call, g)
    /\ pc.at = "timestep" => AtMostOneEdgePerPair(Graph)
    /\ (pc.at = "raised" /\ ret.op = "assert_no_duplicate_edges_exist") =>
           /\ ~AtMostOneEdgePerPair(Graph)
           /\ ~HasNeuronObject(Graph)
           /\ ~EngineInvokedOn(GraphName)

\* The second SNN graph has two edges for one pair of nodes: the check
\* raised on it, after the first graph was simulated, and it has no neuron
\* object.
NoDuplicateEdgesWitness ==
    /\ pc.at = "raised"
    /\ ret.op = "assert_no_duplicate_edges_exist"
    /\ GraphName = "rad_snn_algo_graph"
    /\ \E j, k \in DOMAIN Graph.edges :
           j # k /\ Graph.edges[j].src = Graph.edges[k].src
                 /\ Graph.edges[j].dst = Graph.edges[k].dst
    /\ ~HasNeuronObject(Graph)
    /\ EngineInvokedOn("snn_algo_graph")
    /\ ~EngineInvokedOn("rad_snn_algo_graph")

(***************************************************************************)
(* Stage completion in sim_graphs.                                         *)
(***************************************************************************)
CompletedStages(g) ==
    IF HasKey(heap[graphs[g]].graph, "completed_stages")
    THEN heap[graphs[g]].graph["completed_stages"]
    ELSE << >>

CarriesStage(g, stage_index) == stage_index \in Range(CompletedStages(g))

SimulationCompletedOn(k) ==
    /\ CompletedOn("verify_networkx_snn_spec", GraphOrder[k])
    /\ EngineInvokedOn(GraphOrder[k])
    /\ ~(pc.k = k /\ pc.at \in {"timestep", "raised"})

\* C21: in sim_graphs a graph carries stage 2 only after its own verification
\* and simulation have completed without raising (input_graph: without any
\* simulation); when the verification of a graph raised, that graph and every
\* graph after it in the iteration order do not carry stage 2.
StageTwoAfterSimulation ==
    \A k \in DOMAIN GraphOrder :
        /\ CarriesStage(GraphOrder[k], 2) =>
               /\ k <= pc.k
               /\ GraphOrder[k] # "input_graph" => SimulationCompletedOn(k)
        /\ (pc.at = "raised" /\ k >= pc.k) => ~CarriesStage(GraphOrder[k], 2)

\* The verification of the last graph raised: the graphs before it carry
\* stages 1 and 2, the last graph carries stage 1 only.
StageTwoAfterSimulationWitness ==
    /\ pc.at = "raised"
    /\ GraphName = "rad_snn_algo_graph"
    /\ CompletedStages("input_graph") = <<1, 2>>
    /\ CompletedStages("snn_algo_graph") = <<1, 2>>
    /\ CompletedStages("rad_snn_algo_graph") = <<1>>
    /\ EngineInvokedOn("snn_algo_graph")

(***************************************************************************)
(* The graphs of stage 1.                                                  *)
(***************************************************************************)
AdaptationNames == {ret.arg.adaptation[k].name : k \in DOMAIN ret.arg.adaptation}

\* G is H with a twin of every counter neuron: the neurons of H with their
\* attributes, and no neuron besides these and the twins.
DerivedFrom(G, H) ==
    /\ DOMAIN H.attrs \subseteq DOMAIN G.attrs
    /\ \A n \in DOMAIN H.attrs : G.attrs[n] = H.attrs[n]
    /\ \A c \in CounterNames : c \in DOMAIN H.attrs /\ RedName(c) \in DOMAIN G.attrs
    /\ DOMAIN G.attrs \subseteq DOMAIN H.attrs \cup {RedName(c) : c \in CounterNames}

\* C24: the mapping that get_used_graphs returns has the keys input_graph and
\* snn_algo_graph, and the key adapted_snn_graph exactly when some name of
\* run_config["adaptation"] is not None; the adapted graph is the compiled
\* snn_algo_graph with its twins, not the input graph.
UsedGraphsKeys ==
    (Called("get_used_graphs") /\ ~ret.out.exc) =>
        /\ {"input_graph", "snn_algo_graph"} \subseteq DOMAIN ret.out.val
        /\ DOMAIN ret.out.val \subseteq
               {"input_graph", "snn_algo_graph", "adapted_snn_graph"}
        /\ "adapted_snn_graph" \in DOMAIN ret.out.val
               <=> (\E name \in AdaptationNames : name # NoName)
        /\ "adapted_snn_graph" \in DOMAIN ret.out.val =>
               /\ ret.out.val["adapted_snn_graph"] \in DOMAIN heap
               /\ DerivedFrom(heap[ret.out.val["adapted_snn_graph"]],
                              heap[ret.out.val["snn_algo_graph"]])
               /\ DOMAIN heap[ret.out.val["input_graph"]].attrs = NodeIndices

\* A redundancy of 1.0 next to a None name: the three graphs are returned.
UsedGraphsKeysWitness ==
    /\ Called("get_used_graphs")
    /\ ~ret.out.exc
    /\ AdaptationNames = {Str("redundancy"), NoName}
    /\ DOMAIN ret.out.val = {"input_graph", "snn_algo_graph", "adapted_snn_graph"}
    /\ RedName(CounterName(0, MVal))
           \in DOMAIN heap[ret.out.val["adapted_snn_graph"]].attrs

\* No adaptation name but None: no adapted graph is returned.
UsedGraphsKeysWithoutAdaptation ==
    /\ Called("get_used_graphs")
    /\ ~ret.out.exc
    /\ AdaptationNames = {NoName}
    /\ DOMAIN ret.out.val = {"input_graph", "snn_algo_graph"}

\* C25: get_adapted_graph raises or returns the graph that get_redundant_graph
\* made of the compiled graph; it raises when the adaptation name is None or
\* is not "redundancy" and when the redundancy is not a float, and it never
\* returns without a graph.
AdaptedGraphOrError ==
    Called("get_adapted_graph") =>
        /\ ~ret.out.exc =>
               /\ ret.out.val \in DOMAIN heap
               /\ DerivedFrom(heap[ret.out.val], heap[graphs["snn_algo_graph"]])
        /\ \A k \in DOMAIN ret.arg.adaptation :
               (\/ ret.arg.adaptation[k].name # Str("redundancy")
                \/ ret.arg.adaptation[k].setting.type # "float")
                   => (Len(ret.arg.adaptation) = 1 => ret.out.exc)

\* C26: get_the_input_graphs returns the graph at position graph_nr of the
\* available graphs, counted from 0, exactly when there are more than graph_nr
\* graphs, and raises otherwise.
InputGraphAtGraphNr ==
    Called("get_the_input_graphs") =>
        LET input_graphs == get_graphs(ret.arg.graph_size)
            graph_nr == ret.arg.graph_nr
        IN IF Len(input_graphs) > graph_nr
           THEN /\ ~ret.out.exc
                /\ graph_nr + 1 \in DOMAIN input_graphs
                /\ heap[ret.out.val] = input_graphs[graph_nr + 1]
           ELSE ret.out.exc

\* C30: get_used_graphs never reaches get_adapted_graph with the adaptation
\* name None.
NoneNameNeverAdapted ==
    Called("get_used_graphs") =>
        \A i \in DOMAIN log :
            log[i].call = "get_adapted_graph" => log[i].adapatation_name # NoName

\* C28: every snn_graph that get_mdsa_snn_results passes to get_snn_results is
\* the last graph of the item of that name in stage_2_graphs (the graph itself
\* when the value is a single graph), never the graph of an item iterated
\* before and never an unassigned value.
OwnFinalGraphRead ==
    Called("get_mdsa_snn_results") =>
        \A i \in DOMAIN log :
            /\ log[i].snn_graph.bound
            /\ \E k \in DOMAIN graphs :
                   /\ graphs[k].name = log[i].graph_name
                   /\ graphs[k].ids # << >>
                   /\ log[i].snn_graph.val = graphs[k].ids[Len(graphs[k].ids)]

(***************************************************************************)
(* check_completed_stages.py: nx_graphs_have_completed_stage.  The value   *)
(* under completed_stages is given with its type, a list or a tuple, for   *)
(* isinstance(..., List).                                                  *)
(***************************************************************************)
List_(x) == [type |-> "list", val |-> x]
Tuple_(x) == [type |-> "tuple", val |-> x]
isinstance_list(x) == x.type = "list"

\* get_expected_stage_1_graph_names, from the design: the input graph, the
\* compiled graph, and the adapted and irradiated graphs the run asks for.
get_expected_stage_1_graph_names(run_config) ==
    <<"input_graph", "snn_algo_graph">>
        \o (IF run_config.adaptation THEN <<"adapted_snn_graph">> ELSE << >>)
        \o (IF run_config.radiation THEN <<"rad_snn_algo_graph">> ELSE << >>)
        \o (IF run_config.adaptation /\ run_config.radiation
            THEN <<"rad_adapted_snn_graph">> ELSE << >>)

\* verify_completed_stages_list, from the design: raises unless the stages
\* increase.
verify_completed_stages_list(completed_stages) ==
    IF \A i, j \in DOMAIN completed_stages :
           i < j => completed_stages[i] < completed_stages[j]
    THEN Return(TRUE) ELSE Raise

\* The loop from the k-th expected graph name on.  The graph is read from
\* graphs_dict before the name is looked for in it: a missing name raises
\* (KeyError).
RECURSIVE have_completed_stage_from(_, _, _, _, _)
have_completed_stage_from(h, expected, k, graphs_dict, stage_index) ==
    IF k > Len(expected) THEN Return(TRUE)
    ELSE IF expected[k] \notin DOMAIN graphs_dict THEN Raise
    ELSE LET graph == h[graphs_dict[expected[k]]]
         IN IF expected[k] \notin DOMAIN graphs_dict THEN Return(FALSE)
            ELSE IF ~HasKey(graph.graph, "completed_stages") THEN Return(FALSE)
            ELSE IF ~isinstance_list(graph.graph["completed_stages"]) THEN Raise
            ELSE IF stage_index \notin Range(graph.graph["completed_stages"].val)
            THEN Return(FALSE)
            ELSE IF verify_completed_stages_list(
                        graph.graph["completed_stages"].val).exc
            THEN Raise
            ELSE have_completed_stage_from(h, expected, k + 1, graphs_dict,
                                           stage_index)

nx_graphs_have_completed_stage(h, run_config, results_nx_graphs, stage_index) ==
    have_completed_stage_from(h, get_expected_stage_1_graph_names(run_config), 1,
                              results_nx_graphs, stage_index)

\* The graphs of a run: any of the five graphs, each without completed_stages
\* or with a list or a tuple of stages.
StagesValues ==
    {List_(<< >>), List_(<<1>>), List_(<<1, 2>>), Tuple_(<<1, 2>>)}
StageRunConfigs == [adaptation : BOOLEAN, radiation : BOOLEAN]
StageGraphNames ==
    {"input_graph", "snn_algo_graph", "adapted_snn_graph", "rad_snn_algo_graph",
     "rad_adapted_snn_graph"}
StageGraphId ==
    ("input_graph" :> 1) @@ ("snn_algo_graph" :> 2) @@ ("adapted_snn_graph" :> 3)
        @@ ("rad_snn_algo_graph" :> 4) @@ ("rad_adapted_snn_graph" :> 5)

InitCompletedStages ==
    /\ \E present \in SUBSET StageGraphNames :
       \E without \in SUBSET present :
       \E stages \in [present \ without -> StagesValues] :
           /\ graphs = [name \in present |-> StageGraphId[name]]
           /\ heap = [id \in {StageGraphId[name] : name \in present} |->
                         LET name == CHOOSE n \in present : StageGraphId[n] = id
                         IN [InputGraph EXCEPT !.graph =
                                IF name \in without THEN EmptyDict
                                ELSE ("completed_stages" :> stages[name])]]
    /\ alipour_counter_marks = EmptyDict
    /\ pc = "idle"
    /\ ret = NoCall
    /\ log = << >>

NxGraphsHaveCompletedStage ==
    /\ pc = "idle"
    /\ \E run_config \in StageRunConfigs :
       \E stage_index \in 1 .. 2 :
           /\ ret' = [op |-> "nx_graphs_have_completed_stage",
                      arg |-> [run_config |-> run_config,
                               stage_index |-> stage_index],
                      out |-> nx_graphs_have_completed_stage(
                                  heap, run_config, graphs, stage_index)]
           /\ log' = get_expected_stage_1_graph_names(run_config)
    /\ pc' = "done"
    /\ UNCHANGED <<heap, graphs, alipour_counter_marks>>

NextCompletedStages == NxGraphsHaveCompletedStage

SpecCompletedStages == InitCompletedStages /\ [][NextCompletedStages]_vars

HasStagesList(name) ==
    /\ name \in DOMAIN graphs
    /\ HasKey(heap[graphs[name]].graph, "completed_stages")
    /\ heap[graphs[name]].graph["completed_stages"].type = "list"

\* C27: nx_graphs_have_completed_stage returns True exactly when every
\* expected graph name is in graphs_dict with a completed_stages list that
\* contains stage_index, and returns False without raising when an expected
\* name is missing or its graph has no completed_stages.
CompletedStageOrFalse ==
    Called("nx_graphs_have_completed_stage") =>
        /\ (~ret.out.exc /\ ret.out.val)
               <=> \A name \in Range(log) :
                       /\ HasStagesList(name)
                       /\ ret.arg.stage_index
                              \in Range(heap[graphs[name]].graph["completed_stages"].val)
        /\ ((\A name \in Range(log) \cap DOMAIN graphs :
                 HasKey(heap[graphs[name]].graph, "completed_stages")
                     => HasStagesList(name))
             /\ \E name \in Range(log) :
                    \/ name \notin DOMAIN graphs
                    \/ ~HasKey(heap[graphs[name]].graph, "completed_stages"))
               => (~ret.out.exc /\ ~ret.out.val)

(***************************************************************************)
(* Experiment_runner.py: __perform_run.  The Experiment_runner object is   *)
(* on the heap under SelfId; graphs is results_nx_graphs["graphs_dict"] of *)
(* the run config at hand; pc holds the position of the parent in the loop *)
(* over the run configs and the render processes of stage 3.               *)
(***************************************************************************)
NumRunConfigs == 2
SelfId == 0

GraphIds(h) == (DOMAIN h) \ {SelfId}

\* The graphs of a run that the helpers of stage 1 make or load, from the
\* design: new objects, in the order of GraphOrder.
RECURSIVE new_graphs(_, _, _, _, _)
new_graphs(h, names, k, G, graphs_dict) ==
    IF k > Len(names) THEN [heap |-> h, graphs_dict |-> graphs_dict]
    ELSE new_graphs((FreshId(h) :> G) @@ h, names, k + 1, G,
                    (names[k] :> FreshId(h)) @@ graphs_dict)

get_input_graph_of_run_config(h) ==
    new_graphs(h, <<"input_graph">>, 1, InputGraph, EmptyDict)
get_graphs_stage_1(h) == new_graphs(h, GraphOrder, 1, InputGraph, EmptyDict)
load_stage1_simsnn_graphs(h, stage_1_graphs_dict) ==
    new_graphs(h, Tail(GraphOrder), 1, Stage1Done(InputGraph), stage_1_graphs_dict)
load_results_stage_1(h) ==
    new_graphs(h, GraphOrder, 1,
               add_stage_completion_to_graph(Stage1Done(InputGraph), 2), EmptyDict)

\* add_stage_completion_to_graph on every graph of a dict.
stage_completed_on_all(h, graphs_dict, stage_index) ==
    [id \in DOMAIN h |->
        IF \E name \in DOMAIN graphs_dict : graphs_dict[name] = id
        THEN add_stage_completion_to_graph(h[id], stage_index)
        ELSE h[id]]

\* A variant in which the graphs of stage 1 hold the input graph that was
\* marked before.
perform_run_stage_1_sharing_input(h, has_outputted_stage_1, output_config) ==
    LET input_graph == get_input_graph_of_run_config(h)
        marked == stage_completed_on_all(input_graph.heap,
                                         input_graph.graphs_dict, 1)
    IN IF ~has_outputted_stage_1 \/ 1 \in output_config.recreate_stages
       THEN LET stage_1_graphs == get_graphs_stage_1(marked)
                shared == input_graph.graphs_dict @@ stage_1_graphs.graphs_dict
            IN [heap |-> stage_completed_on_all(stage_1_graphs.heap, shared, 1),
                graphs_dict |-> shared]
       ELSE load_stage1_simsnn_graphs(marked, input_graph.graphs_dict)

\* perform_run_stage_1: the input graph is marked, then the graphs of stage 1
\* are made and marked, or loaded next to the input graph.
perform_run_stage_1(h, has_outputted_stage_1, output_config) ==
    LET input_graph == get_input_graph_of_run_config(h)
        marked == stage_completed_on_all(input_graph.heap,
                                         input_graph.graphs_dict, 1)
    IN IF ~has_outputted_stage_1 \/ 1 \in output_config.recreate_stages
       THEN LET stage_1_graphs == get_graphs_stage_1(marked)
            IN [heap |-> stage_completed_on_all(stage_1_graphs.heap,
                                                stage_1_graphs.graphs_dict, 1),
                graphs_dict |-> stage_1_graphs.graphs_dict]
       ELSE load_stage1_simsnn_graphs(marked, input_graph.graphs_dict)

\* results_nx_graphs_contain_expected_stages, from the design.
results_nx_graphs_contain_expected_stages(h, graphs_dict, expected_stages) ==
    \A name \in DOMAIN graphs_dict :
        /\ HasKey(h[graphs_dict[name]].graph, "completed_stages")
        /\ expected_stages \subseteq Range(h[graphs_dict[name]].graph["completed_stages"])

\* __perform_run_stage_2: sim_graphs on the graphs of stage 1 (its last
\* statement for every graph is add_stage_completion_to_graph), or the
\* graphs of stage 2 loaded from file.
perform_run_stage_2(h, graphs_dict, has_outputted_stage_jsons, output_config) ==
    IF ~has_outputted_stage_jsons \/ 2 \in output_config.recreate_stages
    THEN [heap |-> stage_completed_on_all(h, graphs_dict, 2),
          graphs_dict |-> graphs_dict]
    ELSE IF ~results_nx_graphs_contain_expected_stages(h, graphs_dict, {1, 2})
    THEN load_results_stage_1(h)
    ELSE [heap |-> h, graphs_dict |-> graphs_dict]

\* set_results, from the design: the results are written into the SNN graphs
\* and stage 4 is recorded.
set_results(h, graphs_dict) ==
    stage_completed_on_all(
        [id \in DOMAIN h |->
            IF \E name \in (DOMAIN graphs_dict) \ {"input_graph"} :
                   graphs_dict[name] = id
            THEN [h[id] EXCEPT !.graph = ("results" :> TRUE) @@ @]
            ELSE h[id]],
        graphs_dict, 4)

get_snn_graph_names == Tail(GraphOrder)

\* A variant of stage 3 that does not join the render processes.
perform_run_stage_3_without_join(output_config) ==
    IF output_config.export_types THEN <<"start", "input">> ELSE << >>

\* __perform_run_stage_3: the loop that starts the render processes, the
\* loop that joins them, and the prompt.
perform_run_stage_3(output_config) ==
    IF output_config.export_types THEN <<"start", "join", "input">> ELSE << >>

\* The body of the loop of __perform_run.
perform_run(output_config) ==
    <<"perform_run_stage_1", "perform_run_stage_2">>
        \o perform_run_stage_3(output_config)
        \o <<"perform_run_stage_4", "store_results">>

\* self.results_nx_graphs = {run_config.unique_id: results_nx_graphs}
store_results(results_nx_graphs, unique_id, graphs_dict) ==
    (unique_id :> graphs_dict)

RunnerAt(name) ==
    pc.at = "call" /\ perform_run(ret.arg.output_config)[pc.i] = name

\* The position after the current statement of the loop body.
RunnerReturned ==
    IF pc.i < Len(perform_run(ret.arg.output_config))
    THEN [pc EXCEPT !.i = pc.i + 1, !.j = 1]
    ELSE IF pc.k < Len(ret.arg.run_configs)
    THEN [pc EXCEPT !.k = pc.k + 1, !.i = 1, !.j = 1]
    ELSE [pc EXCEPT !.at = "done"]

RunnerEvent(name) == [call |-> name, run |-> pc.k]

OutputConfigs ==
    [recreate_stages : SUBSET {1, 2}, export_types : BOOLEAN,
     graph_types : SUBSET Range(GraphOrder)]

InitRunner ==
    /\ heap = (SelfId :> [results_nx_graphs |-> EmptyDict])
    /\ graphs = EmptyDict
    /\ alipour_counter_marks = EmptyDict
    /\ pc = [at |-> "call", k |-> 1, i |-> 1, j |-> 1, jobs |-> << >>]
    /\ \E output_config \in OutputConfigs :
           ret = [op |-> "__perform_run",
                  arg |-> [output_config |-> output_config,
                           run_configs |-> [k \in 1 .. NumRunConfigs |->
                                               [unique_id |-> k]]]]
    /\ log = << >>

PerformRunStage1 ==
    /\ RunnerAt("perform_run_stage_1")
    /\ \E has_outputted_stage_1 \in BOOLEAN :
           LET run == perform_run_stage_1(heap, has_outputted_stage_1,
                                          ret.arg.output_config)
           IN /\ heap' = run.heap
              /\ graphs' = run.graphs_dict
    /\ pc' = RunnerReturned
    /\ log' = Append(log, RunnerEvent("perform_run_stage_1"))
    /\ UNCHANGED <<alipour_counter_marks, ret>>

PerformRunStage2 ==
    /\ RunnerAt("perform_run_stage_2")
    /\ \E has_outputted_stage_jsons \in BOOLEAN :
           LET run == perform_run_stage_2(heap, graphs, has_outputted_stage_jsons,
                                          ret.arg.output_config)
           IN /\ heap' = run.heap
              /\ graphs' = run.graphs_dict
    /\ pc' = RunnerReturned
    /\ log' = Append(log, RunnerEvent("perform_run_stage_2"))
    /\ UNCHANGED <<alipour_counter_marks, ret>>

\* One turn of the loop over get_snn_graph_names(): a process is made,
\* appended to jobs and started when the graph name is among the graph types.
StartRenderProcess ==
    /\ RunnerAt("start")
    /\ LET jobs == IF pc.j = 1 THEN << >> ELSE pc.jobs
           graph_name == get_snn_graph_names[pc.j]
           started == IF graph_name \in ret.arg.output_config.graph_types
                      THEN Append(jobs, [graph_name |-> graph_name,
                                         state |-> "started"])
                      ELSE jobs
       IN pc' = IF pc.j < Len(get_snn_graph_names)
                THEN [pc EXCEPT !.j = pc.j + 1, !.jobs = started]
                ELSE [RunnerReturned EXCEPT !.jobs = started]
    /\ UNCHANGED <<heap, graphs, alipour_counter_marks, ret, log>>

\* A render process reads the graphs, writes its plot and exits.
CreateSvgPlot ==
    /\ \E n \in DOMAIN pc.jobs :
           /\ pc.jobs[n].state = "started"
           /\ pc' = [pc EXCEPT !.jobs[n].state = "exited"]
           /\ log' = Append(log, RunnerEvent("create_svg_plot"))
    /\ UNCHANGED <<heap, graphs, alipour_counter_marks, ret>>

\* One turn of the loop over jobs: proc.join() returns once proc has exited.
JoinRenderProcess ==
    /\ RunnerAt("join")
    /\ IF pc.j > Len(pc.jobs) THEN pc' = RunnerReturned
       ELSE /\ pc.jobs[pc.j].state = "exited"
            /\ pc' = [pc EXCEPT !.j = pc.j + 1, !.jobs[pc.j].state = "joined"]
    /\ UNCHANGED <<heap, graphs, alipour_counter_marks, ret, log>>

ProceedToNextVisualisation ==
    /\ RunnerAt("input")
    /\ pc' = RunnerReturned
    /\ UNCHANGED <<heap, graphs, alipour_counter_marks, ret, log>>

PerformRunStage4 ==
    /\ RunnerAt("perform_run_stage_4")
    /\ heap' = set_results(heap, graphs)
    /\ pc' = RunnerReturned
    /\ log' = Append(log, RunnerEvent("perform_run_stage_4"))
    /\ UNCHANGED <<graphs, alipour_counter_marks, ret>>

StoreResults ==
    /\ RunnerAt("store_results")
    /\ heap' = [heap EXCEPT ![SelfId].results_nx_graphs =
                   store_results(@, ret.arg.run_configs[pc.k].unique_id, graphs)]
    /\ pc' = RunnerReturned
    /\ UNCHANGED <<graphs, alipour_counter_marks, ret, log>>

NextRunner ==
    \/ PerformRunStage1
    \/ PerformRunStage2
    \/ StartRenderProcess
    \/ CreateSvgPlot
    \/ JoinRenderProcess
    \/ ProceedToNextVisualisation
    \/ PerformRunStage4
    \/ StoreResults

SpecRunner == InitRunner /\ [][NextRunner]_vars

(***************************************************************************)
(* What the claims about the runner speak about.                           *)
(***************************************************************************)
StagesOf(id) ==
    IF HasKey(heap[id].graph, "completed_stages")
    THEN heap[id].graph["completed_stages"] ELSE << >>

StrictlyIncreasing(stages) ==
    \A a, b \in DOMAIN stages : a < b => stages[a] < stages[b]

WorkersInUse == \E n \in DOMAIN pc.jobs : pc.jobs[n].state # "joined"

\* C23: while a render process is started and not yet joined the parent
\* changes no graph, and stage 4 starts only when every started render
\* process has been joined.
RenderWorkersSeeReadOnlyGraphs ==
    [][/\ WorkersInUse => heap' = heap
       /\ RunnerAt("perform_run_stage_4") => ~WorkersInUse]_vars

\* Two render processes were started and joined, and stage 4 is next.
RenderWorkersSeeReadOnlyGraphsWitness ==
    /\ RunnerAt("perform_run_stage_4")
    /\ Len(pc.jobs) = 2
    /\ \A n \in DOMAIN pc.jobs : pc.jobs[n].state = "joined"
    /\ \E i \in DOMAIN log : log[i] = [call |-> "create_svg_plot", run |-> pc.k]

\* C29: when __perform_run has processed the run configs,
\* self.results_nx_graphs has an entry under the unique_id of every one of
\* them.
ResultsOfEveryRunKept ==
    pc.at = "done" =>
        DOMAIN heap[SelfId].results_nx_graphs =
            {ret.arg.run_configs[k].unique_id : k \in DOMAIN ret.arg.run_configs}

====
